---- MODULE Spec2Model ----
(***************************************************************************)
(* leeroy: the bridge between GitHub pull-request webhooks and Jenkins.    *)
(* The model follows the handlers of the main package (githubHandler,      *)
(* jenkinsHandler), the Config methods of utils.go and the Jenkins client. *)
(* GitHub and Jenkins are the environment: their state is kept in          *)
(* prCommits, ghStatus, comments and active, and every call to them may    *)
(* fail wherever the code tests an error.                                  *)
(***************************************************************************)
EXTENDS Integers, Sequences, FiniteSets, TLC

\* ------------------------------------------------------------------ bounds
MaxEvents == 1        \* pull-request events handled in one behaviour of Spec
MaxSeqEvents == 2     \* pull-request events handled in one behaviour of SpecSeq
MaxNotifications == 1 \* Jenkins notifications handled in one behaviour
MaxReviews == 1       \* review events handled in one behaviour of SpecReview
MaxLoadEvents == 1    \* pull-request events handled in one behaviour of SpecLoad
MaxNotFound == 6      \* Not Found answers of GitHub to the content load in SpecLoad
MaxCommits == 2       \* commits of one pull request
MaxLen == 3           \* length of the commit list handed to getShas alone
MaxTeams == 3         \* length of the team allowlist handed to isValidMember alone
MaxOps == 1           \* operator requests handled in one behaviour of SpecOps

\* ------------------------------------------------------- program constants
totalAttempts == 5
CancelOK == 200
BuildOK == 201

\* --------------------------------------------------------------- fixtures
Handlers == {1, 2}
PRs == {1, 2, 3}
\* the base repository of each pull request: the catalog has no build for o/x
RepoOf(n) == IF n = 3 THEN "o/x" ELSE "o/r"
\* the head repository of each pull request
HeadRepoOf(n) == "fork/r"
Authors == {"alice", "eve"}
BotLogin == "Bot"                 \* the login GitHub shows for the token's user
\* GitHub answers the membership query for (team, login) with 200
Member(team, login) ==
  \/ team = "t2" /\ login = "alice"
  \/ team = "t3" /\ login = "carol"

Range(s) == {s[i] : i \in 1..Len(s)}
Last(s) == s[Len(s)]

\* strings.ToLower on the logins of the model
ToLower(s) ==
  CASE s = "Bot" -> "bot"
    [] s = "Alice" -> "alice"
    [] OTHER -> s

\* strings.SplitN(repoName, "/", 2) yields two parts
RepoParses(repoName) == repoName \in {"o/r", "o/x"}

\* config.Builds: the build catalog
Builds ==
  << [Repo |-> "o/r", Job |-> "j1", Context |-> "c1", Custom |-> FALSE,
      Downstream |-> FALSE, DownstreamBuilds |-> <<"c3", "c4">>, ExcludeTargets |-> {}],
     [Repo |-> "o/r", Job |-> "j3", Context |-> "c3", Custom |-> FALSE,
      Downstream |-> TRUE, DownstreamBuilds |-> <<>>, ExcludeTargets |-> {"release"}],
     [Repo |-> "o/r", Job |-> "j2", Context |-> "c2", Custom |-> FALSE,
      Downstream |-> FALSE, DownstreamBuilds |-> <<"c9">>, ExcludeTargets |-> {}],
     [Repo |-> "o/r", Job |-> "j4", Context |-> "c4", Custom |-> TRUE,
      Downstream |-> FALSE, DownstreamBuilds |-> <<>>, ExcludeTargets |-> {}] >>

NoBuild ==
  [Repo |-> "", Job |-> "", Context |-> "", Custom |-> FALSE,
   Downstream |-> FALSE, DownstreamBuilds |-> <<>>, ExcludeTargets |-> {}]

VARIABLES
  config,     \* BuildCommits, Teams, GHUser: fixed when the process starts
  prCommits,  \* GitHub: the commit list of each pull request, oldest first
  prAuthor,   \* GitHub: the login of each pull request's author
  ghStatus,   \* GitHub: the <<sha, context>> pairs that carry a status
  comments,   \* GitHub: the comments of each pull request
  active,     \* Jenkins: the queued or running build instances
  nextId,     \* Jenkins: the next build number
  pc,         \* per handler: where the request handling stands
  req,        \* per handler: the inbound request
  loc,        \* per handler: the local variables of the handling
  log,        \* per handler: the external calls of the handling, in order
  resp,       \* per handler: the status code written, 0 when none was written
  handled,    \* requests received so far
  clean,      \* no handling before the present one met an error
  nfLeft,     \* Not Found answers GitHub may still give to the content load
  probe       \* the last call of a function checked on its own

vars == <<config, prCommits, prAuthor, ghStatus, comments, active, nextId,
          pc, req, loc, log, resp, handled, clean, nfLeft, probe>>

github == <<prCommits, prAuthor, ghStatus, comments>>
jenkins == <<active, nextId>>

\* ---------------------------------------------------------------- helpers
Sha(n, i) == 10 * n + i
HeadSha(n) == Last(prCommits[n])

Call(op, job, n, sha, ctx, state, ok) ==
  [op |-> op, job |-> job, n |-> n, sha |-> sha, ctx |-> ctx, state |-> state, ok |-> ok,
   head |-> "", by |-> "", code |-> 0]

\* the calls, marked with the function that issues them
By(fn, calls) == [i \in 1..Len(calls) |-> [calls[i] EXCEPT !.by = fn]]

\* http.ResponseWriter.WriteHeader: the first code written stands
WriteHeader(r, code) == IF r = 0 THEN code ELSE r
\* the status the client sees: 200 when the handler wrote none
Status(h) == IF resp[h] = 0 THEN 200 ELSE resp[h]

\* the handling of h met no failed call and answered 200
Clean(h) == Status(h) = 200 /\ \A i \in 1..Len(log[h]) : log[h][i].ok

NoReq == [kind |-> "none", action |-> "", n |-> 0, author |-> "", head |-> 0,
          mergeable |-> FALSE, repo |-> ""]
\* entered counts the calls of getBuildsWhileCancellingExisting in the handling
NoLoc == [attempt |-> 0, delay |-> 0, waits |-> <<>>, content |-> <<>>,
          authorized |-> FALSE, builds |-> <<>>, bi |-> 0, entered |-> 0]

\* ------------------------------------------------------------ the catalog
\* Config.getBuilds
getBuilds_noDownstream(baseRepo, isCustom) ==
  LET builds == SelectSeq(Builds, LAMBDA b : b.Repo = baseRepo /\ isCustom = b.Custom
                                               /\ ~b.Downstream)
  IN [builds |-> builds, err |-> Len(builds) <= 0]

getBuilds(baseRepo, isCustom) ==
  LET builds == SelectSeq(Builds, LAMBDA b : b.Repo = baseRepo /\ isCustom = b.Custom)
  IN [builds |-> builds, err |-> Len(builds) <= 0]

\* Config.getBuildByJob
getBuildByJob(job) ==
  LET hits == SelectSeq(Builds, LAMBDA b : b.Job = job)
  IN IF Len(hits) > 0 THEN [build |-> hits[1], err |-> FALSE]
     ELSE [build |-> NoBuild, err |-> TRUE]

DEFAULTCONTEXT == "janky"

\* Config.getBuildByContextAndRepo
getBuildByContextAndRepo(context, repo) ==
  LET ctx == IF context = "" THEN DEFAULTCONTEXT ELSE context
      hits == SelectSeq(Builds, LAMBDA b : b.Context = ctx /\ b.Repo = repo)
  IN IF Len(hits) > 0 THEN [build |-> hits[1], err |-> FALSE]
     ELSE [build |-> NoBuild, err |-> TRUE]

\* ------------------------------------------------------- commit resolution
\* hasStatus: a failed lookup is logged and answered false
hasStatus_anyContext(statuses, sha, context, lookupOK) ==
  IF ~lookupOK THEN FALSE ELSE \E st \in statuses : st[1] = sha

hasStatus(statuses, sha, context, lookupOK) ==
  IF ~lookupOK THEN FALSE ELSE <<sha, context>> \in statuses

\* the loop of getShas over the listed commits
RECURSIVE appendShas(_, _, _, _, _, _)
appendShas(policy, commits, i, context, statuses, failed) ==
  IF i > Len(commits) THEN <<>>
  ELSE LET sha == commits[i]
           rest == appendShas(policy, commits, i + 1, context, statuses, failed)
       IN IF policy = "new" /\ hasStatus(statuses, sha, context, sha \notin failed)
          THEN rest
          ELSE <<sha>> \o rest

\* Config.getShas.  commits and head are what GitHub holds for the pull
\* request, statuses the <<sha, context>> pairs with a status; prOK and
\* commitsOK say whether the pull-request fetch and the commit listing
\* succeed, failed is the set of shas whose status lookup fails.
getShas(policy, commits, head, n, context, statuses, prOK, commitsOK, failed) ==
  LET prCall == Call("getpr", "", n, 0, "", "", prOK)
      listCall == Call("commits", "", n, 0, "", "", commitsOK)
      lookups == IF policy = "new"
                 THEN [i \in 1..Len(commits) |->
                         Call("statuses", "", n, commits[i], context, "", TRUE)]
                 ELSE <<>>
  IN IF ~prOK THEN [shas |-> <<>>, err |-> TRUE, calls |-> <<prCall>>]
     ELSE IF policy = "all" \/ policy = "new"
     THEN IF ~commitsOK
          THEN [shas |-> <<>>, err |-> TRUE, calls |-> <<prCall, listCall>>]
          ELSE [shas |-> appendShas(policy, commits, 1, context, statuses, failed),
                err |-> FALSE, calls |-> <<prCall, listCall>> \o lookups]
     ELSE [shas |-> <<head>>, err |-> FALSE, calls |-> <<prCall>>]

\* ------------------------------------------------------------ authorization
\* the loop of isValidMember over config.Teams; the request to team failAt
\* fails in transport (0: none does)
RECURSIVE memberLoop(_, _, _, _)
memberLoop(author, teams, i, failAt) ==
  IF i > Len(teams) THEN [valid |-> FALSE, err |-> FALSE, calls |-> <<>>]
  ELSE IF i = failAt
  THEN [valid |-> FALSE, err |-> TRUE,
        calls |-> <<Call("member", teams[i], 0, 0, "", "", FALSE)>>]
  ELSE IF Member(teams[i], author)
  THEN [valid |-> TRUE, err |-> FALSE,
        calls |-> <<Call("member", teams[i], 0, 0, "", "", TRUE)>>]
  ELSE LET r == memberLoop(author, teams, i + 1, failAt)
       IN [r EXCEPT !.calls = <<Call("member", teams[i], 0, 0, "", "", TRUE)>> \o @]

\* isValidMember
isValidMember_open(author, teams, failAt) ==
  [valid |-> TRUE, err |-> FALSE, calls |-> <<>>]

isValidMember_closed(author, teams, failAt) ==
  IF Len(teams) = 0 THEN [valid |-> FALSE, err |-> FALSE, calls |-> <<>>]
  ELSE memberLoop(author, teams, 1, failAt)

isValidMember(author, teams, failAt) ==
  IF Len(teams) = 0 THEN [valid |-> TRUE, err |-> FALSE, calls |-> <<>>]
  ELSE memberLoop(author, teams, 1, failAt)

\* PullRequestContent.AlreadyCommented: body is the set of phrases the
\* comment's text contains
AlreadyCommented(content, commentType, user) ==
  \E i \in 1..Len(content) :
    ToLower(content[i].login) = user /\ commentType \in content[i].body

CommentType == "Unapproved user"
UnauthorizedContext == "mantid/unauthorized"

\* ------------------------------------------------------------ GitHub status
\* Config.updateGithubStatus: one SetStatus call unless the repo name does
\* not parse
updateGithubStatus_noError(repoName, context, sha, state, n, ok) ==
  IF ~RepoParses(repoName) THEN [err |-> FALSE, calls |-> <<>>, written |-> {}]
  ELSE [err |-> FALSE,
        calls |-> <<Call("status", "", n, sha, context, state, ok)>>,
        written |-> IF ok THEN {<<sha, context>>} ELSE {}]

updateGithubStatus(repoName, context, sha, state, n, ok) ==
  IF ~RepoParses(repoName) THEN [err |-> TRUE, calls |-> <<>>, written |-> {}]
  ELSE [err |-> ~ok,
        calls |-> <<Call("status", "", n, sha, context, state, ok)>>,
        written |-> IF ok THEN {<<sha, context>>} ELSE {}]

\* ------------------------------------------------------------------ Jenkins
\* what Client.GetJobInstance can parse out of Jenkins' answer for (job, n):
\* the number of an unfinished build of that pull request, 0 when none
JobInstances_anyPR(job, n) ==
  LET ids == {x.id : x \in {y \in active : y.job = job}}
  IN IF ids = {} THEN {0} ELSE ids

JobInstances(job, n) ==
  LET ids == {x.id : x \in {y \in active : y.job = job /\ y.n = n}}
  IN IF ids = {} THEN {0} ELSE ids

\* Client.CancelJobInstance: an error unless Jenkins answers 200
CancelJobInstance_created(code) == [err |-> code \notin {200, 201}]

CancelJobInstance(code) == [err |-> code # CancelOK]

\* Client.BuildWithParameters: an error unless Jenkins answers 201
BuildWithParameters(code) == [err |-> code # BuildOK]

\* what Jenkins may answer to the instance query for (job, n): the request
\* does not get through, the status code is not 200, the body cannot be
\* read, the body is not well-formed XML, or the body holds the number of an
\* unfinished build of the pull request (0: it holds no build element)
GoodAnswer(number) ==
  [sent |-> TRUE, code |-> 200, readable |-> TRUE, wellformed |-> TRUE, number |-> number]

QueryAnswers(job, n) ==
  {[GoodAnswer(0) EXCEPT !.sent = FALSE, !.code = 0],
   [GoodAnswer(0) EXCEPT !.code = 500],
   [GoodAnswer(0) EXCEPT !.readable = FALSE],
   [GoodAnswer(0) EXCEPT !.wellformed = FALSE]}
  \cup {GoodAnswer(i) : i \in JobInstances(job, n)}

\* the fault of an answer to the instance query ("": none)
QueryFault(ans) ==
  CASE ~ans.sent -> "transport"
    [] ans.code # 200 -> "status"
    [] ~ans.readable -> "read"
    [] ~ans.wellformed -> "parse"
    [] OTHER -> ""

\* Client.GetJobInstance
GetJobInstance_none(ans) ==
  IF ~ans.sent \/ ans.code # 200 \/ ~ans.readable \/ ~ans.wellformed
  THEN [id |-> 0, err |-> FALSE]
  ELSE [id |-> ans.number, err |-> FALSE]

GetJobInstance(ans) ==
  IF ~ans.sent THEN [id |-> 0, err |-> TRUE]
  ELSE IF ans.code # 200 THEN [id |-> 0, err |-> TRUE]
  ELSE IF ~ans.readable THEN [id |-> 0, err |-> TRUE]
  ELSE IF ~ans.wellformed THEN [id |-> 0, err |-> TRUE]
  ELSE [id |-> ans.number, err |-> FALSE]

\* The body of Config.cancelJenkinsBuild.  ans is the answer of Jenkins to the
\* instance query, code its answer to the stop request.  The query and the
\* stop request carry the instance number in the sha field of the call, the
\* stop request the status code of its answer.
cancelSteps_stopZero(baseRepo, n, build, prOK, commitsOK, ans, code) ==
  LET s == getShas(config.BuildCommits, prCommits[n], HeadSha(n), n, build.Context,
                   ghStatus, prOK, commitsOK, {})
      g == GetJobInstance(ans)
      query == Call("query", build.Job, n, ans.number, "", "", QueryFault(ans) = "")
      stop == [Call("cancel", build.Job, n, g.id, "", "", ~CancelJobInstance(code).err)
                 EXCEPT !.code = code]
  IN IF ~RepoParses(baseRepo) THEN [err |-> TRUE, calls |-> <<>>, stopped |-> {}]
     ELSE IF s.err THEN [err |-> TRUE, calls |-> s.calls, stopped |-> {}]
     ELSE IF g.err THEN [err |-> TRUE, calls |-> s.calls \o <<query>>, stopped |-> {}]
     ELSE [err |-> CancelJobInstance(code).err,
           calls |-> s.calls \o <<query, stop>>,
           stopped |-> IF code \in {200, 201} THEN {g.id} ELSE {}]

cancelSteps(baseRepo, n, build, prOK, commitsOK, ans, code) ==
  LET s == getShas(config.BuildCommits, prCommits[n], HeadSha(n), n, build.Context,
                   ghStatus, prOK, commitsOK, {})
      g == GetJobInstance(ans)
      query == Call("query", build.Job, n, ans.number, "", "", QueryFault(ans) = "")
      stop == [Call("cancel", build.Job, n, g.id, "", "", ~CancelJobInstance(code).err)
                 EXCEPT !.code = code]
  IN IF ~RepoParses(baseRepo) THEN [err |-> TRUE, calls |-> <<>>, stopped |-> {}]
     ELSE IF s.err THEN [err |-> TRUE, calls |-> s.calls, stopped |-> {}]
     ELSE IF g.err THEN [err |-> TRUE, calls |-> s.calls \o <<query>>, stopped |-> {}]
     ELSE IF g.id # 0
     THEN [err |-> CancelJobInstance(code).err,
           calls |-> s.calls \o <<query, stop>>,
           stopped |-> IF code \in {200, 201} THEN {g.id} ELSE {}]
     ELSE [err |-> FALSE, calls |-> s.calls \o <<query>>, stopped |-> {}]

cancelJenkinsBuild_swallow(baseRepo, n, build, prOK, commitsOK, ans, code) ==
  LET c == cancelSteps(baseRepo, n, build, prOK, commitsOK, ans, code)
  IN [c EXCEPT !.calls = By("cancelJenkinsBuild", @), !.err = FALSE]

cancelJenkinsBuild(baseRepo, n, build, prOK, commitsOK, ans, code) ==
  LET c == cancelSteps(baseRepo, n, build, prOK, commitsOK, ans, code)
  IN [c EXCEPT !.calls = By("cancelJenkinsBuild", @)]

\* the loop of scheduleJenkinsBuild over the shas: a pending status, then the
\* build request.  The failPos-th call of the loop fails (0: none does).
RECURSIVE scheduleLoop(_, _, _, _, _, _)
scheduleLoop(baseRepo, n, build, shas, i, failPos) ==
  IF i > Len(shas) THEN [err |-> FALSE, calls |-> <<>>, written |-> {}, started |-> <<>>]
  ELSE LET st == updateGithubStatus(baseRepo, build.Context, shas[i], "pending", n,
                                    failPos # 2 * i - 1)
           b == BuildWithParameters(IF failPos = 2 * i THEN 500 ELSE 201)
           bCall == [Call("build", build.Job, n, shas[i], "", "", ~b.err)
                       EXCEPT !.head = HeadRepoOf(n)]
       IN IF st.err
          THEN [err |-> TRUE, calls |-> st.calls, written |-> {}, started |-> <<>>]
          ELSE IF b.err
          THEN [err |-> TRUE, calls |-> st.calls \o <<bCall>>,
                written |-> st.written, started |-> <<>>]
          ELSE LET r == scheduleLoop(baseRepo, n, build, shas, i + 1, failPos)
               IN [err |-> r.err, calls |-> st.calls \o <<bCall>> \o r.calls,
                   written |-> st.written \cup r.written,
                   started |-> <<shas[i]>> \o r.started]

\* Config.scheduleJenkinsBuild
scheduleJenkinsBuild_swallow(baseRepo, n, build, prOK, commitsOK, failed, failPos) ==
  LET s == getShas(config.BuildCommits, prCommits[n], HeadSha(n), n, build.Context,
                   ghStatus, prOK, commitsOK, failed)
      r == scheduleLoop(baseRepo, n, build, s.shas, 1, failPos)
  IN IF ~RepoParses(baseRepo)
     THEN [err |-> FALSE, calls |-> <<>>, written |-> {}, started |-> <<>>]
     ELSE IF s.err
     THEN [err |-> FALSE, calls |-> By("scheduleJenkinsBuild", s.calls),
           written |-> {}, started |-> <<>>]
     ELSE [r EXCEPT !.calls = By("scheduleJenkinsBuild", s.calls \o @), !.err = FALSE]

scheduleJenkinsBuild(baseRepo, n, build, prOK, commitsOK, failed, failPos) ==
  LET s == getShas(config.BuildCommits, prCommits[n], HeadSha(n), n, build.Context,
                   ghStatus, prOK, commitsOK, failed)
      r == scheduleLoop(baseRepo, n, build, s.shas, 1, failPos)
  IN IF ~RepoParses(baseRepo)
     THEN [err |-> TRUE, calls |-> <<>>, written |-> {}, started |-> <<>>]
     ELSE IF s.err
     THEN [err |-> TRUE, calls |-> By("scheduleJenkinsBuild", s.calls),
           written |-> {}, started |-> <<>>]
     ELSE [r EXCEPT !.calls = By("scheduleJenkinsBuild", s.calls \o @)]

\* the instances Jenkins queues for the builds started, numbered from nextId
NewInstances(job, n, started) ==
  {[id |-> nextId + i - 1, job |-> job, n |-> n, sha |-> started[i]] : i \in 1..Len(started)}

\* ------------------------------------------------------------ initial state
Policies == {"all", "new", "last"}
Actions == {"opened", "reopened", "synchronize", "closed"}
CancelCodes == {200, 201, 500}

\* No request is being handled.  Jenkins runs one build of j2 for pull
\* request 1, started before the first request of the behaviour.
Quiet ==
  /\ prCommits = [n \in PRs |-> <<Sha(n, 1)>>]
  /\ ghStatus = {}
  /\ comments = [n \in PRs |-> <<>>]
  /\ active = {[id |-> 1, job |-> "j2", n |-> 1, sha |-> Sha(1, 1)]}
  /\ nextId = 2
  /\ pc = [h \in Handlers |-> "done"]
  /\ req = [h \in Handlers |-> NoReq]
  /\ loc = [h \in Handlers |-> NoLoc]
  /\ log = [h \in Handlers |-> <<>>]
  /\ resp = [h \in Handlers |-> 0]
  /\ handled = 0
  /\ clean = TRUE
  /\ nfLeft = 0

Init ==
  /\ config \in [BuildCommits : Policies, Teams : {<<"t1", "t2">>}, GHUser : {"bot", "Bot"}]
  /\ prAuthor \in {f \in [PRs -> Authors] : f[2] = "alice" /\ f[3] = f[1]}
  /\ Quiet
  /\ probe = [fn |-> "none"]

\* ------------------------------------------------------------- environment
\* the author pushes one more commit to pull request n
Push(n) ==
  /\ \A h \in Handlers : pc[h] = "done"
  /\ Len(prCommits[n]) < MaxCommits
  /\ prCommits' = [prCommits EXCEPT ![n] = Append(@, Sha(n, Len(@) + 1))]
  /\ UNCHANGED <<config, prAuthor, ghStatus, comments, jenkins,
                 pc, req, loc, log, resp, handled, clean, nfLeft, probe>>

\* ------------------------------------------------------------ githubHandler
PullRequestHooks(ns) ==
  {[kind |-> "pull_request", action |-> a, n |-> n, author |-> prAuthor[n],
    head |-> HeadSha(n), mergeable |-> m, repo |-> RepoOf(n)] :
     a \in Actions, n \in ns, m \in BOOLEAN}

OtherHooks == {[NoReq EXCEPT !.kind = k] : k \in {"", "ping", "issues", "badbody"}}

Finish(h, code) ==
  /\ pc' = [pc EXCEPT ![h] = "done"]
  /\ resp' = [resp EXCEPT ![h] = WriteHeader(@, code)]

\* startJenkinsBuilds returns without writing a status code; after it
\* handlePullRequestReview writes 200
Return(h) ==
  /\ pc' = [pc EXCEPT ![h] = "done"]
  /\ resp' = [resp EXCEPT ![h] = IF req[h].kind = "pull_request_review"
                                  THEN WriteHeader(@, 200) ELSE @]

\* the action filter of githubHandler
Ignored_never(action) == FALSE

Ignored(action) == action # "opened" /\ action # "reopened" /\ action # "synchronize"

\* githubHandler up to its first external call: the event header, the body,
\* the action filter.  The event is about a pull request of ns; max bounds
\* the events of the behaviour.
githubHandler(h, ns, max) ==
  /\ pc[h] = "done"
  /\ handled < max
  /\ handled' = handled + 1
  /\ \E r \in PullRequestHooks(ns) \cup OtherHooks :
       /\ req' = [req EXCEPT ![h] = r]
       /\ log' = [log EXCEPT ![h] = <<>>]
       /\ loc' = [loc EXCEPT ![h] = [NoLoc EXCEPT !.attempt = 1, !.delay = 1]]
       /\ CASE r.kind = "ping" ->
                 /\ pc' = [pc EXCEPT ![h] = "done"]
                 /\ resp' = [resp EXCEPT ![h] = 200]
            [] r.kind = "badbody" ->
                 /\ pc' = [pc EXCEPT ![h] = "done"]
                 /\ resp' = [resp EXCEPT ![h] = 500]
            [] r.kind = "pull_request" /\ ~Ignored(r.action) ->
                 /\ pc' = [pc EXCEPT ![h] = "load"]
                 /\ resp' = [resp EXCEPT ![h] = 0]
            [] OTHER ->
                 /\ pc' = [pc EXCEPT ![h] = "done"]
                 /\ resp' = [resp EXCEPT ![h] = 0]
  /\ clean' = (clean /\ Clean(h))
  /\ UNCHANGED <<config, github, jenkins, nfLeft, probe>>

\* the test of the retry loop: the load is tried again
mayRetry_anyError(attempt, out) == attempt <= totalAttempts

mayRetry(attempt, out) == attempt <= totalAttempts /\ out = "Not Found"

\* delay *= 2, in seconds
backoff_constant(delay) == delay

backoff(delay) == delay * 2

\* the retry loop around g.LoadPullRequest; the state field of the call
\* carries the error
LoadPullRequest(h) ==
  /\ pc[h] = "load"
  /\ \E out \in {"ok", "error"} \cup (IF nfLeft > 0 THEN {"Not Found"} ELSE {}) :
       /\ nfLeft' = IF out = "Not Found" THEN nfLeft - 1 ELSE nfLeft
       /\ log' = [log EXCEPT ![h] = Append(@, Call("load", "", req[h].n, 0, "",
                                                   IF out = "ok" THEN "" ELSE out, out = "ok"))]
       /\ IF out = "ok"
          THEN /\ loc' = [loc EXCEPT ![h].content = comments[req[h].n]]
               /\ pc' = [pc EXCEPT ![h] = "mergeable"]
               /\ UNCHANGED resp
          ELSE IF mayRetry(loc[h].attempt, out)
          THEN /\ loc' = [loc EXCEPT ![h].waits = Append(@, loc[h].delay),
                                     ![h].attempt = @ + 1,
                                     ![h].delay = backoff(@)]
               /\ UNCHANGED <<pc, resp>>
          ELSE /\ Finish(h, 500)
               /\ UNCHANGED loc
  /\ UNCHANGED <<config, github, jenkins, req, handled, clean, probe>>

\* g.IsMergeable: the mergeable flag of the pull request, or an error
IsMergeable(r, ok) == [mergeable |-> ok /\ r.mergeable, err |-> ~ok]

\* the call of g.IsMergeable in githubHandler and the test of its answer
checkMergeable_proceed(h) ==
  /\ pc[h] = "mergeable"
  /\ \E ok \in BOOLEAN :
       LET m == IsMergeable(req[h], ok)
       IN /\ log' = [log EXCEPT ![h] = Append(@, Call("mergeable", "", req[h].n, 0, "", "", ok))]
          /\ IF m.err THEN Finish(h, 500)
             ELSE /\ pc' = [pc EXCEPT ![h] = "auth"]
                  /\ resp' = [resp EXCEPT ![h] = IF m.mergeable THEN @ ELSE WriteHeader(@, 200)]
  /\ UNCHANGED <<config, github, jenkins, req, loc, handled, clean, nfLeft, probe>>

checkMergeable(h) ==
  /\ pc[h] = "mergeable"
  /\ \E ok \in BOOLEAN :
       LET m == IsMergeable(req[h], ok)
       IN /\ log' = [log EXCEPT ![h] = Append(@, Call("mergeable", "", req[h].n, 0, "", "", ok))]
          /\ IF m.err THEN Finish(h, 500)
             ELSE IF ~m.mergeable THEN Finish(h, 200)
             ELSE /\ pc' = [pc EXCEPT ![h] = "auth"]
                  /\ UNCHANGED resp
  /\ UNCHANGED <<config, github, jenkins, req, loc, handled, clean, nfLeft, probe>>

\* g.AddUniqueComment: nothing is posted when the content loaded for this
\* handling already holds the comment; the comment posted carries its kind
AddUniqueComment(content, user, n, commentType, ok) ==
  IF AlreadyCommented(content, commentType, user)
  THEN [err |-> FALSE, calls |-> <<>>, posted |-> <<>>]
  ELSE [err |-> ~ok,
        calls |-> <<Call("comment", "", n, 0, "", "", ok)>>,
        posted |-> IF ok THEN <<[login |-> BotLogin, body |-> {"Thanks", commentType}]>>
                   ELSE <<>>]

\* the entry of getBuildsWhileCancellingExisting, from startJenkinsBuilds
\* (authorized) or from the unauthorized branch of githubHandler
EnterCancel(h, authorized, l) ==
  LET g == getBuilds(req[h].repo, FALSE)
  IN IF g.err
     THEN /\ Finish(h, IF authorized THEN 500 ELSE 200)
          /\ loc' = [loc EXCEPT ![h] = [l EXCEPT !.authorized = authorized,
                                                 !.entered = @ + 1]]
     ELSE /\ pc' = [pc EXCEPT ![h] = "cancel"]
          /\ loc' = [loc EXCEPT ![h] = [l EXCEPT !.authorized = authorized,
                                                 !.builds = g.builds, !.bi = 1,
                                                 !.entered = @ + 1]]
          /\ UNCHANGED resp

\* checkIsAuthorizedPRAuthor and the branch of githubHandler on its answer
checkIsAuthorizedPRAuthor(h) ==
  /\ pc[h] = "auth"
  /\ \E failAt \in 0..Len(config.Teams) :
     \E commentOK \in (IF isValidMember(req[h].author, config.Teams, failAt).valid
                       THEN {TRUE} ELSE BOOLEAN) :
     \E statusOK \in (IF isValidMember(req[h].author, config.Teams, failAt).valid
                         \/ ~commentOK
                      THEN {TRUE} ELSE BOOLEAN) :
       LET r == req[h]
           m == isValidMember(r.author, config.Teams, failAt)
           c == AddUniqueComment(loc[h].content, config.GHUser, r.n, CommentType, commentOK)
           st == Call("status", "", r.n, r.head, UnauthorizedContext, "failure", statusOK)
       IN IF m.valid
          THEN /\ log' = [log EXCEPT ![h] = @ \o By("isValidMember", m.calls)]
               /\ UNCHANGED <<comments, ghStatus>>
               /\ EnterCancel(h, TRUE, loc[h])
          ELSE /\ comments' = [comments EXCEPT ![r.n] = @ \o c.posted]
               /\ IF c.err
                  THEN /\ log' = [log EXCEPT ![h] = @ \o By("isValidMember", m.calls)
                                                      \o By("AddUniqueComment", c.calls)]
                       /\ UNCHANGED ghStatus
                  ELSE /\ log' = [log EXCEPT ![h] = @ \o By("isValidMember", m.calls)
                                                      \o By("AddUniqueComment", c.calls)
                                                      \o By("FailureStatus", <<st>>)]
                       /\ ghStatus' = IF statusOK
                                      THEN ghStatus \cup {<<r.head, UnauthorizedContext>>}
                                      ELSE ghStatus
               /\ EnterCancel(h, FALSE, loc[h])
  /\ UNCHANGED <<config, prCommits, prAuthor, jenkins, req, handled, clean, nfLeft, probe>>

\* the range loops over the builds: is there a build after the present one
moreToCancel_never(l) == FALSE

moreToCancel(l) == l.bi < Len(l.builds)
moreToSchedule(l) == l.bi < Len(l.builds)

\* one turn of the loop of getBuildsWhileCancellingExisting, and what its
\* caller does when the loop ends
getBuildsWhileCancellingExisting(h) ==
  /\ pc[h] = "cancel"
  /\ LET l == loc[h]
         build == l.builds[l.bi]
         n == req[h].n
     IN \E prOK \in BOOLEAN :
        \E commitsOK \in (IF prOK /\ config.BuildCommits # "last" THEN BOOLEAN ELSE {TRUE}) :
        \E ans \in (IF prOK /\ commitsOK THEN QueryAnswers(build.Job, n)
                     ELSE {GoodAnswer(0)}) :
        \E code \in (IF QueryFault(ans) = "" /\ ans.number # 0 THEN CancelCodes
                      ELSE {CancelOK}) :
          LET c == cancelJenkinsBuild(req[h].repo, n, build, prOK, commitsOK, ans, code)
          IN /\ log' = [log EXCEPT ![h] = @ \o c.calls]
             /\ active' = {x \in active : ~(x.job = build.Job /\ x.id \in c.stopped)}
             /\ IF c.err
                THEN /\ Finish(h, IF l.authorized THEN 500 ELSE 200)
                     /\ UNCHANGED loc
                ELSE IF moreToCancel(l)
                THEN /\ loc' = [loc EXCEPT ![h].bi = @ + 1]
                     /\ UNCHANGED <<pc, resp>>
                ELSE IF l.authorized
                THEN /\ loc' = [loc EXCEPT ![h].bi = 1]
                     /\ pc' = [pc EXCEPT ![h] = "sched"]
                     /\ UNCHANGED resp
                ELSE /\ Finish(h, 200)
                     /\ UNCHANGED loc
  /\ UNCHANGED <<config, github, nextId, req, handled, clean, nfLeft, probe>>

\* one turn of the scheduling loop of startJenkinsBuilds
startJenkinsBuilds(h) ==
  /\ pc[h] = "sched"
  /\ LET l == loc[h]
         build == l.builds[l.bi]
         n == req[h].n
         Advance == IF moreToSchedule(l)
                    THEN /\ loc' = [loc EXCEPT ![h].bi = @ + 1]
                         /\ UNCHANGED <<pc, resp>>
                    ELSE /\ Return(h)
                         /\ UNCHANGED loc
     IN IF build.Downstream
        THEN /\ Advance
             /\ UNCHANGED <<log, ghStatus, active, nextId>>
        ELSE \E prOK \in BOOLEAN :
             \E commitsOK \in (IF prOK /\ config.BuildCommits # "last" THEN BOOLEAN ELSE {TRUE}) :
             \E failed \in (IF config.BuildCommits = "new" /\ prOK /\ commitsOK
                             THEN SUBSET Range(prCommits[n]) ELSE {{}}) :
             \E failPos \in (IF prOK /\ commitsOK THEN 0..(2 * Len(prCommits[n]))
                              ELSE {0}) :
               LET r == scheduleJenkinsBuild(req[h].repo, n, build, prOK, commitsOK,
                                             failed, failPos)
               IN /\ log' = [log EXCEPT ![h] = @ \o r.calls]
                  /\ ghStatus' = ghStatus \cup r.written
                  /\ active' = active \cup NewInstances(build.Job, n, r.started)
                  /\ nextId' = nextId + Len(r.started)
                  /\ IF r.err
                     THEN /\ Finish(h, 500)
                          /\ UNCHANGED loc
                     ELSE Advance
  /\ UNCHANGED <<config, prCommits, prAuthor, comments, req, handled, clean, nfLeft, probe>>

\* -------------------------------------------------- handlePullRequestReview
\* review bodies are sequences of characters
IsSpace(c) == c \in {" ", "\t", "\n"}

\* strings.TrimSpace
TrimSpace(str) ==
  LET keep == {i \in 1..Len(str) : ~IsSpace(str[i])}
      first == CHOOSE i \in keep : \A k \in keep : i <= k
      last == CHOOSE i \in keep : \A k \in keep : k <= i
  IN IF keep = {} THEN <<>> ELSE SubSeq(str, first, last)

\* the case folding of strings.EqualFold on the letters of the model
FoldChar(c) ==
  CASE c = "R" -> "r"
    [] c = "E" -> "e"
    [] c = "U" -> "u"
    [] c = "N" -> "n"
    [] c = "C" -> "c"
    [] c = "I" -> "i"
    [] OTHER -> c

\* strings.EqualFold
EqualFold_exact(str, t) == str = t

EqualFold(str, t) ==
  /\ Len(str) = Len(t)
  /\ \A i \in 1..Len(str) : FoldChar(str[i]) = FoldChar(t[i])

RerunCI == <<"r", "e", "r", "u", "n", " ", "c", "i">>

ReviewBodies ==
  { RerunCI,
    <<" ", " ", "R", "e", "r", "u", "n", " ", "C", "I", " ", " ">>,
    <<"\t", "R", "E", "R", "U", "N", " ", "C", "I", "\n">>,
    <<"r", "e", "r", "u", "n", " ", " ", "c", "i">>,
    <<"r", "e", "r", "u", "n", " ", "c", "i", "!">>,
    <<"r", "e", "r", "u", "n", "c", "i">>,
    <<" ", " ">>,
    <<>> }

\* the pull_request_review events: payload says whether the body can be
\* read and decoded
ReviewHooks(ns) ==
  {[kind |-> "pull_request_review", payload |-> "ok", action |-> a, body |-> b,
    reviewer |-> u, n |-> n, repo |-> RepoOf(n)] :
     a \in {"submitted", "edited", "dismissed"}, b \in ReviewBodies, u \in Authors, n \in ns}
  \cup
  {[kind |-> "pull_request_review", payload |-> p, action |-> "", body |-> <<>>,
    reviewer |-> "", n |-> 0, repo |-> ""] : p \in {"unreadable", "badjson"}}

\* the pull_request_review case of githubHandler, and handlePullRequestReview
\* up to the authorization of the reviewer
pullRequestReview(h, ns, max) ==
  /\ pc[h] = "done"
  /\ handled < max
  /\ handled' = handled + 1
  /\ \E r \in ReviewHooks(ns) :
       /\ req' = [req EXCEPT ![h] = r]
       /\ log' = [log EXCEPT ![h] = <<>>]
       /\ loc' = [loc EXCEPT ![h] = NoLoc]
       /\ IF r.payload = "unreadable"
          THEN /\ pc' = [pc EXCEPT ![h] = "done"]
               /\ resp' = [resp EXCEPT ![h] = 500]
          ELSE IF r.payload = "badjson"
          THEN /\ pc' = [pc EXCEPT ![h] = "done"]
               /\ resp' = [resp EXCEPT ![h] = 400]
          ELSE IF r.action # "submitted"
          THEN /\ pc' = [pc EXCEPT ![h] = "done"]
               /\ resp' = [resp EXCEPT ![h] = 200]
          ELSE IF EqualFold(TrimSpace(r.body), RerunCI)
          THEN /\ pc' = [pc EXCEPT ![h] = "rerun"]
               /\ resp' = [resp EXCEPT ![h] = 0]
          ELSE /\ pc' = [pc EXCEPT ![h] = "done"]
               /\ resp' = [resp EXCEPT ![h] = 200]
  /\ clean' = (clean /\ Clean(h))
  /\ UNCHANGED <<config, github, jenkins, nfLeft, probe>>

\* setValidationCheckPassed: the pull request is fetched again and a success
\* status is written on its head sha; both errors are logged and dropped
setValidationCheckPassed(n, prOK, statusOK) ==
  LET prCall == Call("getpr", "", n, 0, "", "", prOK)
      st == Call("status", "", n, HeadSha(n), UnauthorizedContext, "success", statusOK)
  IN IF ~prOK THEN [calls |-> By("setValidationCheckPassed", <<prCall>>), written |-> {}]
     ELSE [calls |-> By("setValidationCheckPassed", <<prCall, st>>),
           written |-> IF statusOK THEN {<<HeadSha(n), UnauthorizedContext>>} ELSE {}]

\* handlePullRequestReview from the authorization of the reviewer to the call
\* of startJenkinsBuilds
handlePullRequestReview(h) ==
  /\ pc[h] = "rerun"
  /\ \E failAt \in 0..Len(config.Teams), prOK \in BOOLEAN, statusOK \in BOOLEAN :
       LET r == req[h]
           m == isValidMember(r.reviewer, config.Teams, failAt)
           v == setValidationCheckPassed(r.n, prOK, statusOK)
       IN IF m.valid
          THEN /\ log' = [log EXCEPT ![h] = @ \o By("isValidMember", m.calls) \o v.calls]
               /\ ghStatus' = ghStatus \cup v.written
               /\ EnterCancel(h, TRUE, loc[h])
          ELSE /\ log' = [log EXCEPT ![h] = @ \o By("isValidMember", m.calls)]
               /\ Finish(h, 403)
               /\ UNCHANGED <<ghStatus, loc>>
  /\ UNCHANGED <<config, prCommits, prAuthor, comments, jenkins, req, handled, clean,
                 nfLeft, probe>>

\* ----------------------------------------------------------- jenkinsHandler
\* strconv.Atoi on the PR parameter, its error dropped
Atoi(str) ==
  CASE str = "1" -> 1
    [] str = "2" -> 2
    [] OTHER -> 0

\* Config.scheduleJenkinsDownstreamBuild; fail names the call that fails
scheduleJenkinsDownstreamBuild(baseRepo, headRepo, number, build, sha, fail) ==
  LET st == updateGithubStatus(baseRepo, build.Context, sha, "pending", number,
                               fail # "status")
      b == BuildWithParameters(IF fail = "build" THEN 500 ELSE 201)
      bCall == [Call("build", build.Job, number, sha, "", "", ~b.err) EXCEPT !.head = headRepo]
  IN IF st.err
     THEN [err |-> TRUE, calls |-> By("scheduleJenkinsDownstreamBuild", st.calls),
           written |-> {}, started |-> <<>>]
     ELSE [err |-> b.err,
           calls |-> By("scheduleJenkinsDownstreamBuild", st.calls \o <<bCall>>),
           written |-> st.written,
           started |-> IF b.err THEN <<>>
                       ELSE <<[job |-> build.Job, n |-> number, sha |-> sha]>>]

\* the loop of jenkinsHandler over DownstreamBuild.ExcludeTargets
skip_build_never(DownstreamBuild, BaseBranch) == FALSE

skip_build(DownstreamBuild, BaseBranch) == BaseBranch \in DownstreamBuild.ExcludeTargets

\* the loop of jenkinsHandler over build.DownstreamBuilds; code is the status
\* code the loop writes (0: none)
RECURSIVE downstreamLoop(_, _, _, _)
downstreamLoop(j, contexts, i, fails) ==
  LET none == [calls |-> <<>>, written |-> {}, started |-> <<>>, code |-> 0]
  IN IF i > Len(contexts) THEN none
     ELSE LET d == getBuildByContextAndRepo(contexts[i], j.GitBaseRepo)
          IN IF d.err THEN none
             ELSE IF skip_build(d.build, j.BaseBranch)
             THEN downstreamLoop(j, contexts, i + 1, fails)
             ELSE LET sd == scheduleJenkinsDownstreamBuild(
                              d.build.Repo, j.GitHeadRepo, Atoi(j.PR), d.build,
                              j.GitSha, fails[i])
                      r == downstreamLoop(j, contexts, i + 1, fails)
                  IN [calls |-> sd.calls \o r.calls,
                      written |-> sd.written \cup r.written,
                      started |-> sd.started \o r.started,
                      code |-> IF sd.err THEN WriteHeader(0, 500) ELSE r.code]

\* the state jenkinsHandler maps a phase and a status to ("": none)
StateOf_unstable(phase, status) ==
  IF phase = "STARTED" THEN "pending"
  ELSE CASE status = "SUCCESS" -> "success"
         [] status = "FAILURE" -> "failure"
         [] status = "UNSTABLE" -> "error"
         [] status = "ABORTED" -> "error"
         [] OTHER -> ""

StateOf_default(phase, status) ==
  IF phase = "STARTED" THEN "pending"
  ELSE CASE status = "SUCCESS" -> "success"
         [] status = "FAILURE" -> "failure"
         [] status = "UNSTABLE" -> "failure"
         [] OTHER -> "error"

StateOf(phase, status) ==
  IF phase = "STARTED" THEN "pending"
  ELSE CASE status = "SUCCESS" -> "success"
         [] status = "FAILURE" -> "failure"
         [] status = "UNSTABLE" -> "failure"
         [] status = "ABORTED" -> "error"
         [] OTHER -> ""

\* the body of jenkinsHandler for a decoded notification j
onNotification(j, statusOK, fails) ==
  LET none == [calls |-> <<>>, written |-> {}, started |-> <<>>, code |-> 0]
      state == StateOf(j.Phase, j.Status)
      b == getBuildByJob(j.Name)
      u == updateGithubStatus(j.GitBaseRepo, b.build.Context, j.GitSha, state,
                              Atoi(j.PR), statusOK)
      st == [u EXCEPT !.calls = By("jenkinsHandler", @)]
      d == downstreamLoop(j, b.build.DownstreamBuilds, 1, fails)
  IN IF j.Phase # "STARTED" /\ j.Phase # "COMPLETED" THEN none
     ELSE IF state = "" THEN none
     ELSE IF b.err THEN none
     ELSE IF state = "success"
     THEN [calls |-> st.calls \o d.calls, written |-> st.written \cup d.written,
           started |-> d.started, code |-> d.code]
     ELSE [calls |-> st.calls, written |-> st.written, started |-> <<>>, code |-> 0]

Phases == {"STARTED", "COMPLETED", "FINALIZED"}
Statuses == {"SUCCESS", "FAILURE", "UNSTABLE", "ABORTED", "WEIRD"}
Fails == {"none", "status", "build"}

Notifications ==
  [kind : {"jenkins"}, method : {"POST"}, decoded : {TRUE},
   Name : {"j1", "j2", "j3", "jx"}, Phase : Phases, Status : Statuses,
   GitBaseRepo : {"o/r", "bad"}, GitHeadRepo : {"fork/r"}, GitSha : {Sha(1, 1)},
   PR : {"1", "x"}, BaseBranch : {"main", "release"}]

BadNotifications ==
  {[kind |-> "jenkins", method |-> "GET", decoded |-> FALSE],
   [kind |-> "jenkins", method |-> "POST", decoded |-> FALSE]}

\* the instances Jenkins queues for the downstream builds started
DownstreamInstances(started) ==
  {[id |-> nextId + i - 1, job |-> started[i].job, n |-> started[i].n,
    sha |-> started[i].sha] : i \in 1..Len(started)}

jenkinsHandler(h) ==
  /\ pc[h] = "done"
  /\ handled < MaxNotifications
  /\ handled' = handled + 1
  /\ \E j \in Notifications \cup BadNotifications :
       /\ req' = [req EXCEPT ![h] = j]
       /\ loc' = [loc EXCEPT ![h] = NoLoc]
       /\ IF j.method # "POST"
          THEN /\ resp' = [resp EXCEPT ![h] = 405]
               /\ log' = [log EXCEPT ![h] = <<>>]
               /\ UNCHANGED <<ghStatus, active, nextId>>
          ELSE IF ~j.decoded
          THEN /\ resp' = [resp EXCEPT ![h] = 0]
               /\ log' = [log EXCEPT ![h] = <<>>]
               /\ UNCHANGED <<ghStatus, active, nextId>>
          ELSE \E statusOK \in BOOLEAN,
                  fails \in [1..Len(getBuildByJob(j.Name).build.DownstreamBuilds) -> Fails] :
                 LET r == onNotification(j, statusOK, fails)
                 IN /\ resp' = [resp EXCEPT ![h] = r.code]
                    /\ log' = [log EXCEPT ![h] = r.calls]
                    /\ ghStatus' = ghStatus \cup r.written
                    /\ active' = active \cup DownstreamInstances(r.started)
                    /\ nextId' = nextId + Len(r.started)
  /\ clean' = (clean /\ Clean(h))
  /\ UNCHANGED <<config, prCommits, prAuthor, comments, pc, nfLeft, probe>>

\* ------------------------------------- customBuildHandler, cronBuildHandler
\* config.User and config.Pass
ConfigUser == "admin"
ConfigPass == "secret"

\* the requests to /build/custom and /build/cron: auth says whether
\* r.BasicAuth() finds credentials, decoded whether the body is JSON
OpsRequests(kind) ==
  [kind : {kind}, auth : BOOLEAN, user : {ConfigUser, "mallory"},
   pass : {ConfigPass, "guess"}, method : {"POST", "GET"}, decoded : BOOLEAN,
   Number : {1, 2}, Repo : {"o/r", "bad"}, Context : {"c4", "c1", ""}]

\* the test both handlers make on the credentials: the request is turned away
denied(user, pass) == user # ConfigUser /\ pass # ConfigPass

\* the open pull requests GitHub lists for the repo
OpenPRs(repoName) == SelectSeq(<<1, 2, 3>>, LAMBDA n : RepoOf(n) = repoName)

\* the loop of getFailedPRs over the open pull requests; the status lookups
\* of the shas in failed fail
RECURSIVE failedLoop(_, _, _, _)
failedLoop(prs, i, context, failed) ==
  IF i > Len(prs) THEN [nums |-> <<>>, calls |-> <<>>]
  ELSE LET n == prs[i]
           sha == HeadSha(n)
           own == hasStatus(ghStatus, sha, context, sha \notin failed)
           un == hasStatus(ghStatus, sha, UnauthorizedContext, sha \notin failed)
           c1 == Call("statuses", "", n, sha, context, "", sha \notin failed)
           c2 == Call("statuses", "", n, sha, UnauthorizedContext, "", sha \notin failed)
           r == failedLoop(prs, i + 1, context, failed)
       IN IF own THEN [r EXCEPT !.calls = <<c1>> \o @]
          ELSE IF un THEN [r EXCEPT !.calls = <<c1, c2>> \o @]
          ELSE [nums |-> <<n>> \o r.nums, calls |-> <<c1, c2>> \o r.calls]

\* Config.getFailedPRs
getFailedPRs(context, repoName, listOK, failed) ==
  LET list == Call("prs", "", 0, 0, "", "", listOK)
      r == failedLoop(OpenPRs(repoName), 1, context, failed)
  IN IF ~RepoParses(repoName) THEN [nums |-> <<>>, err |-> TRUE, calls |-> <<>>]
     ELSE IF ~listOK THEN [nums |-> <<>>, err |-> TRUE, calls |-> <<list>>]
     ELSE [nums |-> r.nums, err |-> FALSE, calls |-> <<list>> \o By("getFailedPRs", r.calls)]

\* the outcomes of one call of scheduleJenkinsBuild in the loop of
\* cronBuildHandler: the fetch that fails and the call of the loop that fails
CronOutcomes == [fetch : {"ok", "pr"}, failPos : 0..2]

\* the loop of cronBuildHandler over the pull requests found: the error of
\* scheduleJenkinsBuild is logged and the loop goes on
RECURSIVE cronLoop(_, _, _, _, _)
cronLoop(repo, nums, i, build, outs) ==
  IF i > Len(nums) THEN [calls |-> <<>>, written |-> {}, started |-> <<>>]
  ELSE LET n == nums[i]
           sb == scheduleJenkinsBuild(repo, n, build, outs[n].fetch # "pr", TRUE, {},
                                      outs[n].failPos)
           r == cronLoop(repo, nums, i + 1, build, outs)
       IN [calls |-> sb.calls \o r.calls,
           written |-> sb.written \cup r.written,
           started |-> [k \in 1..Len(sb.started) |->
                          [job |-> build.Job, n |-> n, sha |-> sb.started[k]]] \o r.started]

\* the part the two handlers share: credentials, method, body
opsEntry(r) ==
  IF ~r.auth THEN 401
  ELSE IF denied(r.user, r.pass) THEN 401
  ELSE IF r.method # "POST" THEN 405
  ELSE IF ~r.decoded THEN 500
  ELSE 0

customBuildHandler(h) ==
  /\ pc[h] = "done"
  /\ handled < MaxOps
  /\ handled' = handled + 1
  /\ \E r \in OpsRequests("custom") :
       /\ req' = [req EXCEPT ![h] = r]
       /\ loc' = [loc EXCEPT ![h] = NoLoc]
       /\ LET b == getBuildByContextAndRepo(r.Context, r.Repo)
          IN IF opsEntry(r) # 0 \/ b.err
             THEN /\ resp' = [resp EXCEPT ![h] = IF opsEntry(r) # 0 THEN opsEntry(r) ELSE 500]
                  /\ log' = [log EXCEPT ![h] = <<>>]
                  /\ UNCHANGED <<ghStatus, active, nextId>>
             ELSE \E prOK \in BOOLEAN :
                  \E commitsOK \in (IF prOK /\ config.BuildCommits # "last"
                                    THEN BOOLEAN ELSE {TRUE}) :
                  \E failPos \in (IF prOK /\ commitsOK
                                  THEN 0..(2 * Len(prCommits[r.Number])) ELSE {0}) :
                    LET sb == scheduleJenkinsBuild(r.Repo, r.Number, b.build, prOK,
                                                   commitsOK, {}, failPos)
                    IN /\ resp' = [resp EXCEPT ![h] = IF sb.err THEN 500 ELSE 204]
                       /\ log' = [log EXCEPT ![h] = sb.calls]
                       /\ ghStatus' = ghStatus \cup sb.written
                       /\ active' = active \cup NewInstances(b.build.Job, r.Number, sb.started)
                       /\ nextId' = nextId + Len(sb.started)
  /\ clean' = (clean /\ Clean(h))
  /\ UNCHANGED <<config, prCommits, prAuthor, comments, pc, nfLeft, probe>>

cronBuildHandler(h) ==
  /\ pc[h] = "done"
  /\ handled < MaxOps
  /\ handled' = handled + 1
  /\ \E r \in OpsRequests("cron") :
       /\ req' = [req EXCEPT ![h] = r]
       /\ loc' = [loc EXCEPT ![h] = NoLoc]
       /\ LET b == getBuildByContextAndRepo(r.Context, r.Repo)
          IN IF opsEntry(r) # 0 \/ b.err
             THEN /\ resp' = [resp EXCEPT ![h] = IF opsEntry(r) # 0 THEN opsEntry(r) ELSE 500]
                  /\ log' = [log EXCEPT ![h] = <<>>]
                  /\ UNCHANGED <<ghStatus, active, nextId>>
             ELSE \E listOK \in BOOLEAN :
                  \E failed \in (IF listOK THEN SUBSET {HeadSha(1)} ELSE {{}}) :
                    LET f == getFailedPRs(r.Context, r.Repo, listOK, failed)
                    IN IF f.err
                       THEN /\ resp' = [resp EXCEPT ![h] = 500]
                            /\ log' = [log EXCEPT ![h] = f.calls]
                            /\ UNCHANGED <<ghStatus, active, nextId>>
                       ELSE \E outs \in [Range(f.nums) -> CronOutcomes] :
                              LET c == cronLoop(r.Repo, f.nums, 1, b.build, outs)
                              IN /\ resp' = [resp EXCEPT ![h] = 204]
                                 /\ log' = [log EXCEPT ![h] = f.calls \o c.calls]
                                 /\ ghStatus' = ghStatus \cup c.written
                                 /\ active' = active \cup DownstreamInstances(c.started)
                                 /\ nextId' = nextId + Len(c.started)
  /\ clean' = (clean /\ Clean(h))
  /\ UNCHANGED <<config, prCommits, prAuthor, comments, pc, nfLeft, probe>>

\* ------------------------------------------------------------ specification
\* one pull-request event, for pull request 1 or 3
SeqPRs == {1, 3}

Next ==
  \/ githubHandler(1, SeqPRs, MaxEvents)
  \/ LoadPullRequest(1)
  \/ checkMergeable(1)
  \/ checkIsAuthorizedPRAuthor(1)
  \/ getBuildsWhileCancellingExisting(1)
  \/ startJenkinsBuilds(1)
  \/ Push(1)

Spec == Init /\ [][Next]_vars

\* pull-request events handled one after another
NextSeq ==
  \/ githubHandler(1, SeqPRs, MaxSeqEvents)
  \/ LoadPullRequest(1)
  \/ checkMergeable(1)
  \/ checkIsAuthorizedPRAuthor(1)
  \/ getBuildsWhileCancellingExisting(1)
  \/ startJenkinsBuilds(1)
  \/ Push(1)

SpecSeq == Init /\ [][NextSeq]_vars

\* one pull-request event whose content load GitHub may answer with Not Found
InitLoad ==
  /\ config = [BuildCommits |-> "last", Teams |-> <<"t1", "t2">>, GHUser |-> "bot"]
  /\ prAuthor \in {f \in [PRs -> Authors] : f[2] = "alice" /\ f[3] = f[1]}
  /\ prCommits = [n \in PRs |-> <<Sha(n, 1)>>]
  /\ ghStatus = {}
  /\ comments = [n \in PRs |-> <<>>]
  /\ active = {[id |-> 1, job |-> "j2", n |-> 1, sha |-> Sha(1, 1)]}
  /\ nextId = 2
  /\ pc = [h \in Handlers |-> "done"]
  /\ req = [h \in Handlers |-> NoReq]
  /\ loc = [h \in Handlers |-> NoLoc]
  /\ log = [h \in Handlers |-> <<>>]
  /\ resp = [h \in Handlers |-> 0]
  /\ handled = 0
  /\ clean = TRUE
  /\ nfLeft = MaxNotFound
  /\ probe = [fn |-> "none"]

NextLoad ==
  \/ githubHandler(1, {1}, MaxLoadEvents)
  \/ LoadPullRequest(1)
  \/ checkMergeable(1)
  \/ checkIsAuthorizedPRAuthor(1)
  \/ getBuildsWhileCancellingExisting(1)
  \/ startJenkinsBuilds(1)

SpecLoad == InitLoad /\ [][NextLoad]_vars

\* one pull-request event for pull request 1 that arrives while Jenkins runs
\* builds of it: the pull request was built before (its first commit carries
\* the statuses of c1, c2 and c3), j1 has succeeded, j2 and the downstream j3
\* are unfinished, and the author may have pushed a second commit since
InitRebuild ==
  /\ config \in [BuildCommits : Policies, Teams : {<<"t1", "t2">>}, GHUser : {"bot"}]
  /\ prAuthor \in {f \in [PRs -> Authors] : f[2] = "alice" /\ f[3] = f[1]}
  /\ prCommits \in {[n \in PRs |-> IF n = 1 THEN [i \in 1..k |-> Sha(1, i)] ELSE <<Sha(n, 1)>>] :
                       k \in 1..MaxCommits}
  /\ ghStatus = {Sha(1, 1)} \X {"c1", "c2", "c3"}
  /\ comments = [n \in PRs |-> <<>>]
  /\ active = {[id |-> 1, job |-> "j2", n |-> 1, sha |-> Sha(1, 1)],
               [id |-> 2, job |-> "j3", n |-> 1, sha |-> Sha(1, 1)]}
  /\ nextId = 3
  /\ pc = [h \in Handlers |-> "done"]
  /\ req = [h \in Handlers |-> NoReq]
  /\ loc = [h \in Handlers |-> NoLoc]
  /\ log = [h \in Handlers |-> <<>>]
  /\ resp = [h \in Handlers |-> 0]
  /\ handled = 0
  /\ clean = TRUE
  /\ nfLeft = 0
  /\ probe = [fn |-> "none"]

NextRebuild ==
  \/ githubHandler(1, {1}, MaxEvents)
  \/ LoadPullRequest(1)
  \/ checkMergeable(1)
  \/ checkIsAuthorizedPRAuthor(1)
  \/ getBuildsWhileCancellingExisting(1)
  \/ startJenkinsBuilds(1)

SpecRebuild == InitRebuild /\ [][NextRebuild]_vars

\* two pull-request events whose handlings overlap: net/http serves every
\* request in a goroutine of its own, and the handlers share nothing but
\* GitHub and Jenkins.  Handler 1 serves an event of pull request 1, handler
\* 2 an event of pull request 1 or 2.
InitConc ==
  /\ config = [BuildCommits |-> "last", Teams |-> <<"t1", "t2">>, GHUser |-> "bot"]
  /\ prAuthor = [n \in PRs |-> "alice"]
  /\ Quiet
  /\ probe = [fn |-> "none"]

\* the goroutine h takes the one request it serves
serve(h, ns) ==
  /\ req[h].kind = "none"
  /\ githubHandler(h, ns, Cardinality(Handlers))

NextConc ==
  \/ serve(1, {1})
  \/ serve(2, {1, 2})
  \/ \E h \in Handlers :
       \/ LoadPullRequest(h)
       \/ checkMergeable(h)
       \/ checkIsAuthorizedPRAuthor(h)
       \/ getBuildsWhileCancellingExisting(h)
       \/ startJenkinsBuilds(h)

SpecConc == InitConc /\ [][NextConc]_vars

\* requests of the operator to /build/custom and /build/cron
InitOps ==
  /\ config \in [BuildCommits : {"last", "all"}, Teams : {<<>>}, GHUser : {"bot"}]
  /\ prAuthor = [n \in PRs |-> "alice"]
  /\ prCommits = [n \in PRs |-> <<Sha(n, 1)>>]
  /\ ghStatus \in SUBSET {<<Sha(1, 1), "c4">>, <<Sha(2, 1), UnauthorizedContext>>}
  /\ comments = [n \in PRs |-> <<>>]
  /\ active = {}
  /\ nextId = 1
  /\ pc = [h \in Handlers |-> "done"]
  /\ req = [h \in Handlers |-> NoReq]
  /\ loc = [h \in Handlers |-> NoLoc]
  /\ log = [h \in Handlers |-> <<>>]
  /\ resp = [h \in Handlers |-> 0]
  /\ handled = 0
  /\ clean = TRUE
  /\ nfLeft = 0
  /\ probe = [fn |-> "none"]

NextOps ==
  \/ customBuildHandler(1)
  \/ cronBuildHandler(1)

SpecOps == InitOps /\ [][NextOps]_vars

\* review events
InitReview ==
  /\ config \in [BuildCommits : {"last", "all"}, Teams : {<<>>, <<"t1", "t2">>}, GHUser : {"bot"}]
  /\ prAuthor = [n \in PRs |-> "eve"]
  /\ Quiet
  /\ probe = [fn |-> "none"]

NextReview ==
  \/ pullRequestReview(1, SeqPRs, MaxReviews)
  \/ handlePullRequestReview(1)
  \/ getBuildsWhileCancellingExisting(1)
  \/ startJenkinsBuilds(1)

SpecReview == InitReview /\ [][NextReview]_vars

\* Jenkins notifications, handled one after another
InitCI ==
  /\ config = [BuildCommits |-> "last", Teams |-> <<>>, GHUser |-> "bot"]
  /\ prAuthor = [n \in PRs |-> "alice"]
  /\ Quiet
  /\ probe = [fn |-> "none"]

NextCI == jenkinsHandler(1)

SpecCI == InitCI /\ [][NextCI]_vars

\* scheduleJenkinsBuild and scheduleJenkinsDownstreamBuild on their own: Init
\* draws the policy, the pull request, its statuses, the definition and the
\* call that fails, the two actions apply the functions
NoSchedule == [err |-> FALSE, calls |-> <<>>, written |-> {}, started |-> <<>>]

InitSched ==
  /\ config \in [BuildCommits : Policies, Teams : {<<>>}, GHUser : {"bot"}]
  /\ prAuthor = [n \in PRs |-> "alice"]
  /\ prCommits \in {[n \in PRs |-> IF n = 1 THEN [i \in 1..k |-> Sha(1, i)] ELSE <<Sha(n, 1)>>] :
                       k \in 1..MaxCommits}
  /\ ghStatus \in SUBSET ({Sha(1, 1)} \X {"c1", "c2"})
  /\ comments = [n \in PRs |-> <<>>]
  /\ active = {}
  /\ nextId = 1
  /\ pc = [h \in Handlers |-> "done"]
  /\ req = [h \in Handlers |-> NoReq]
  /\ loc = [h \in Handlers |-> NoLoc]
  /\ log = [h \in Handlers |-> <<>>]
  /\ resp = [h \in Handlers |-> 0]
  /\ handled = 0
  /\ clean = TRUE
  /\ nfLeft = 0
  /\ probe \in
       [fn : {"scheduleJenkinsBuild"}, baseRepo : {"o/r", "bad"}, build : Range(Builds),
        fetch : {"ok", "pr", "commits"}, failed : SUBSET {Sha(1, 1)},
        failPos : 0..(2 * MaxCommits), done : {FALSE}, out : {NoSchedule}]
       \cup
       [fn : {"scheduleJenkinsDownstreamBuild"}, baseRepo : {"o/r", "bad"},
        build : Range(Builds), sha : {Sha(1, 1), Sha(1, 2)}, fail : Fails,
        done : {FALSE}, out : {NoSchedule}]

scheduleJenkinsBuildCall ==
  /\ probe.fn = "scheduleJenkinsBuild"
  /\ ~probe.done
  /\ probe' = [probe EXCEPT
                 !.done = TRUE,
                 !.out = scheduleJenkinsBuild(probe.baseRepo, 1, probe.build,
                                              probe.fetch # "pr", probe.fetch # "commits",
                                              probe.failed, probe.failPos)]
  /\ UNCHANGED <<config, github, jenkins, pc, req, loc, log, resp, handled, clean, nfLeft>>

scheduleJenkinsDownstreamBuildCall ==
  /\ probe.fn = "scheduleJenkinsDownstreamBuild"
  /\ ~probe.done
  /\ probe' = [probe EXCEPT
                 !.done = TRUE,
                 !.out = [scheduleJenkinsDownstreamBuild(probe.baseRepo, HeadRepoOf(1), 1,
                                                         probe.build, probe.sha, probe.fail)
                            EXCEPT !.started = [i \in 1..Len(@) |-> @[i].sha]]]
  /\ UNCHANGED <<config, github, jenkins, pc, req, loc, log, resp, handled, clean, nfLeft>>

NextSched ==
  \/ scheduleJenkinsBuildCall
  \/ scheduleJenkinsDownstreamBuildCall

SpecSched == InitSched /\ [][NextSched]_vars

\* isValidMember on its own: Init draws the author, the allowlist and the
\* query that fails, isValidMemberCall applies the function
TeamLists == UNION {[1..k -> {"t1", "t2", "t3"}] : k \in 0..MaxTeams}

InitMember ==
  /\ config = [BuildCommits |-> "last", Teams |-> <<>>, GHUser |-> "bot"]
  /\ prAuthor = [n \in PRs |-> "alice"]
  /\ Quiet
  /\ probe \in [fn : {"isValidMember"}, author : Authors \cup {"carol"},
                teams : TeamLists, failAt : 0..MaxTeams,
                done : {FALSE}, out : {[valid |-> FALSE, err |-> FALSE, calls |-> <<>>]}]
  /\ probe.failAt <= Len(probe.teams)

isValidMemberCall ==
  /\ probe.fn = "isValidMember"
  /\ ~probe.done
  /\ probe' = [probe EXCEPT
                 !.done = TRUE,
                 !.out = isValidMember(probe.author, probe.teams, probe.failAt)]
  /\ UNCHANGED <<config, github, jenkins, pc, req, loc, log, resp, handled, clean, nfLeft>>

NextMember == isValidMemberCall

SpecMember == InitMember /\ [][NextMember]_vars

\* getShas on its own: Init draws the pull request, the statuses and the
\* outcomes of the calls, getShasCall applies the function
ShaSet == 1..MaxLen
CommitLists ==
  {c \in UNION {[1..k -> ShaSet] : k \in 1..MaxLen} :
     \A i, j \in 1..Len(c) : i # j => c[i] # c[j]}

StatusesOf(p) == (p.own \X {"c1"}) \cup (p.other \X {"c2"})

InitShas ==
  /\ config = [BuildCommits |-> "last", Teams |-> <<>>, GHUser |-> "bot"]
  /\ prAuthor = [n \in PRs |-> "alice"]
  /\ Quiet
  /\ probe \in [fn : {"getShas"}, policy : Policies, commits : CommitLists,
                head : ShaSet, own : SUBSET ShaSet, other : {{}, {1}},
                fetch : {"ok", "pr", "commits"}, failed : SUBSET ShaSet,
                done : {FALSE}, out : {[shas |-> <<>>, err |-> FALSE, calls |-> <<>>]}]
  /\ probe.failed \subseteq Range(probe.commits)

getShasCall ==
  /\ probe.fn = "getShas"
  /\ ~probe.done
  /\ probe' = [probe EXCEPT
                 !.done = TRUE,
                 !.out = getShas(probe.policy, probe.commits, probe.head, 1, "c1",
                                 StatusesOf(probe), probe.fetch # "pr",
                                 probe.fetch # "commits", probe.failed)]
  /\ UNCHANGED <<config, github, jenkins, pc, req, loc, log, resp, handled, clean, nfLeft>>

NextShas == getShasCall

SpecShas == InitShas /\ [][NextShas]_vars

\* ================================================================= claims
Idx(h) == 1..Len(log[h])
Count(h, P(_)) == Cardinality({i \in Idx(h) : P(log[h][i])})
Some(h, P(_)) == \E i \in Idx(h) : P(log[h][i])
None(h, P(_)) == \A i \in Idx(h) : ~P(log[h][i])

IsBuild(e) == e.op = "build"
IsPending(e) == e.op = "status" /\ e.state = "pending"
IsStatus(e) == e.op = "status"
IsComment(e) == e.op = "comment"
IsCancelStep(e) == e.by = "cancelJenkinsBuild"
Failed(e) == ~e.ok

\* a pull-request event with one of the three actions the handler acts on
Acted(h) ==
  /\ req[h].kind = "pull_request"
  /\ req[h].action \in {"opened", "reopened", "synchronize"}

\* the definitions of the catalog a pull-request event of this repo matches
Matching(repo) == {Builds[i] : i \in {k \in 1..Len(Builds) :
                                        Builds[k].Repo = repo /\ ~Builds[k].Custom}}

\* C1: in a handling of a pull-request event, every call of a cancellation
\* step comes before the first schedule call, and when a schedule call is
\* issued the instance query of every matching definition has returned and
\* no call of a cancellation step has failed.
C1_CancelBeforeSchedule ==
  Acted(1) =>
    \A i \in Idx(1) :
      IsBuild(log[1][i]) =>
        /\ \A j \in Idx(1) : IsCancelStep(log[1][j]) => (j < i /\ log[1][j].ok)
        /\ \A b \in Matching(req[1].repo) :
             \E j \in 1..(i - 1) :
               /\ IsCancelStep(log[1][j])
               /\ log[1][j].op = "query"
               /\ log[1][j].job = b.Job

C1_Witness ==
  /\ Acted(1)
  /\ pc[1] = "done"
  /\ Some(1, LAMBDA e : e.op = "cancel" /\ e.ok)
  /\ Some(1, LAMBDA e : IsBuild(e) /\ e.ok)

\* C2: after handlings of pull-request events that all completed without
\* error, no (job, PR) slot holds two active instances.
C2_OneActivePerSlot ==
  (clean /\ pc[1] = "done" /\ Acted(1) /\ Clean(1)) =>
    \A x, y \in active : (x.job = y.job /\ x.n = y.n) => x = y

\* C3: when a call of a cancellation step fails in an authorized handling,
\* that call is the last call of the handling, which has ended with 500 and
\* has made no schedule call and no pending status write.
C3_CancelFailureAborts ==
  (Acted(1) /\ loc[1].authorized) =>
    \A i \in Idx(1) :
      (IsCancelStep(log[1][i]) /\ Failed(log[1][i])) =>
        /\ i = Len(log[1])
        /\ pc[1] = "done"
        /\ resp[1] = 500
        /\ None(1, IsBuild)
        /\ None(1, IsPending)

C3_Witness ==
  /\ Acted(1)
  /\ loc[1].authorized
  /\ Len(log[1]) > 0
  /\ Failed(Last(log[1]))
  /\ Last(log[1]).op = "cancel"
  /\ Count(1, LAMBDA e : e.op = "query") = 3

\* C4: a pull-request event whose action is none of opened, reopened,
\* synchronize is answered without any external call.
C4_IgnoredActionNoCall ==
  (req[1].kind = "pull_request"
     /\ req[1].action \notin {"opened", "reopened", "synchronize"}) =>
    /\ log[1] = <<>>
    /\ pc[1] = "done"
    /\ Status(1) = 200

C4_Witness ==
  /\ req[1].kind = "pull_request"
  /\ req[1].action = "closed"
  /\ pc[1] = "done"
  /\ \E x \in active : x.n = req[1].n

\* C5: once the pull request is reported not mergeable, the handling has
\* ended with 200, and it has made no membership query, instance query,
\* cancel call, schedule call, status write or comment.
ReportedUnmergeable(h) ==
  /\ Acted(h)
  /\ ~req[h].mergeable
  /\ Some(h, LAMBDA e : e.op = "mergeable" /\ e.ok)

C5_UnmergeableNoEffect ==
  ReportedUnmergeable(1) =>
    /\ pc[1] = "done"
    /\ Status(1) = 200
    /\ None(1, LAMBDA e : e.op \in {"member", "query", "cancel", "build", "status",
                                    "comment", "getpr", "commits", "statuses"})

C5_Witness ==
  /\ ReportedUnmergeable(1)
  /\ pc[1] = "done"
  /\ \E x \in active : x.n = req[1].n

\* C6: the author is in no team of the (non-empty) allowlist
NotAMember(h) ==
  /\ config.Teams # <<>>
  /\ \A t \in Range(config.Teams) : ~Member(t, req[h].author)

\* the handling has gone past the authorization check
PastAuth(h) ==
  /\ Acted(h)
  /\ req[h].mergeable
  /\ pc[h] \in {"cancel", "sched", "done"}
  /\ Some(h, LAMBDA e : e.op = "mergeable" /\ e.ok)

UnauthorizedWrites(h) ==
  {i \in Idx(h) : IsStatus(log[h][i]) /\ log[h][i].ctx = "mantid/unauthorized"}

C6_Rest(h) ==
  /\ \A i \in UnauthorizedWrites(h) :
       log[h][i].state = "failure" /\ log[h][i].sha = req[h].head
  /\ None(h, IsBuild)
  /\ None(h, IsPending)
  /\ pc[h] # "sched"
  /\ pc[h] = "done" =>
       /\ Status(h) = 200
       /\ Matching(req[h].repo) # {} => Some(h, IsCancelStep)

\* C6 as stated: an unauthorized author gets exactly one failure status
\* under mantid/unauthorized, cancellation is attempted, nothing is
\* scheduled and no pending status is written.
C6_ExactlyOneFailureStatus ==
  (PastAuth(1) /\ NotAMember(1)) =>
    /\ Cardinality(UnauthorizedWrites(1)) = 1
    /\ C6_Rest(1)

\* C6, amended: the failure status under mantid/unauthorized is written once
\* unless adding the comment failed, and then not at all; cancellation is
\* attempted, nothing is scheduled and no pending status is written.
C6_FailureStatusUnlessCommentFails ==
  (PastAuth(1) /\ NotAMember(1)) =>
    /\ Cardinality(UnauthorizedWrites(1)) =
         (IF Some(1, LAMBDA e : IsComment(e) /\ Failed(e)) THEN 0 ELSE 1)
    /\ C6_Rest(1)

C6_Witness ==
  /\ PastAuth(1)
  /\ NotAMember(1)
  /\ pc[1] = "done"
  /\ Cardinality(UnauthorizedWrites(1)) = 1
  /\ Some(1, LAMBDA e : e.op = "cancel" /\ e.ok)

\* C7: a pull request of an author who is in no team of the allowlist never
\* carries more than one explanatory comment of the bot.
C7_CommentedOnce ==
  \A n \in PRs :
    (\A t \in Range(config.Teams) : ~Member(t, prAuthor[n])) =>
    Cardinality({i \in 1..Len(comments[n]) :
                   comments[n][i].login = BotLogin
                     /\ "Unapproved user" \in comments[n][i].body}) <= 1

\* ---------------------------------------------------------------- getShas
\* the shas of the listing that carry no status under the context
WithoutStatus(commits, context, statuses) ==
  SelectSeq(commits, LAMBDA sha : <<sha, context>> \notin statuses)

\* the shas of the listing for which the lookup reports no status
NotReported(commits, context, statuses, failed) ==
  SelectSeq(commits, LAMBDA sha : sha \in failed \/ <<sha, context>> \notin statuses)

Resolved == probe.fn = "getShas" /\ probe.done /\ ~probe.out.err

\* C8 as stated: last yields the head sha alone, all the listing, new the
\* shas of the listing, in order, that have no status under the context.
C8_ResolveByPolicy ==
  Resolved =>
    probe.out.shas =
      CASE probe.policy = "last" -> <<probe.head>>
        [] probe.policy = "all" -> probe.commits
        [] probe.policy = "new" ->
             WithoutStatus(probe.commits, "c1", StatusesOf(probe))

\* C8, amended: last yields the head sha alone, all the listing, new the
\* shas of the listing, in order, for which the status lookup reports no
\* status under the context: a sha whose lookup fails is kept.
C8_ResolveByReportedStatus ==
  Resolved =>
    probe.out.shas =
      CASE probe.policy = "last" -> <<probe.head>>
        [] probe.policy = "all" -> probe.commits
        [] probe.policy = "new" ->
             NotReported(probe.commits, "c1", StatusesOf(probe), probe.failed)

C8_Witness ==
  /\ Resolved
  /\ probe.policy = "new"
  /\ probe.commits = <<2, 1, 3>>
  /\ probe.own = {1, 2}
  /\ probe.failed = {1}
  /\ probe.out.shas = <<1, 3>>

\* --------------------------------------------------------- jenkinsHandler
Notified(h) == req[h].kind = "jenkins" /\ req[h].method = "POST" /\ req[h].decoded

InCatalog(job) == \E i \in 1..Len(Builds) : Builds[i].Job = job
ContextOf(job) == (CHOOSE b \in Range(Builds) : b.Job = job).Context

MappedPairs ==
  {<<"COMPLETED", "SUCCESS">>, <<"COMPLETED", "FAILURE">>,
   <<"COMPLETED", "UNSTABLE">>, <<"COMPLETED", "ABORTED">>}

\* a notification the mapping table covers, for a job of the catalog
Mapped(h) ==
  /\ Notified(h)
  /\ InCatalog(req[h].Name)
  /\ req[h].Phase = "STARTED" \/ <<req[h].Phase, req[h].Status>> \in MappedPairs

TableState(phase, status) ==
  IF phase = "STARTED" THEN "pending"
  ELSE IF status = "SUCCESS" THEN "success"
  ELSE IF status \in {"FAILURE", "UNSTABLE"} THEN "failure"
  ELSE "error"

OwnWrite(h, e) ==
  /\ IsStatus(e)
  /\ e.sha = req[h].GitSha
  /\ e.ctx = ContextOf(req[h].Name)
  /\ e.state = TableState(req[h].Phase, req[h].Status)

\* C9 as stated: such a notification makes exactly one status write, on its
\* sha, under the context of its definition, with the state of the table.
C9_OneStatusWrite ==
  Mapped(1) =>
    /\ Count(1, IsStatus) = 1
    /\ \A i \in Idx(1) : IsStatus(log[1][i]) => OwnWrite(1, log[1][i])

\* C9, amended: the handler itself makes exactly one status write, on the
\* notification's sha, under the context of its definition, with the state
\* of the table, unless the base repo of the notification is not of the form
\* owner/name, and then none; every other status write is the pending write
\* of a downstream build after a success.
C9_OneOwnStatusWrite ==
  Mapped(1) =>
    /\ Count(1, LAMBDA e : IsStatus(e) /\ e.by = "jenkinsHandler") =
         (IF RepoParses(req[1].GitBaseRepo) THEN 1 ELSE 0)
    /\ \A i \in Idx(1) :
         IsStatus(log[1][i]) =>
           \/ log[1][i].by = "jenkinsHandler" /\ OwnWrite(1, log[1][i])
           \/ /\ log[1][i].by = "scheduleJenkinsDownstreamBuild"
              /\ IsPending(log[1][i])
              /\ TableState(req[1].Phase, req[1].Status) = "success"

C9_Witness ==
  /\ Mapped(1)
  /\ req[1].Name = "j1"
  /\ req[1].Phase = "COMPLETED"
  /\ req[1].Status = "UNSTABLE"
  /\ Count(1, LAMBDA e : IsStatus(e) /\ e.state = "failure" /\ e.ok) = 1

\* C10: a notification whose phase is neither STARTED nor COMPLETED, or
\* whose phase is COMPLETED with a status outside the table, or whose job is
\* not in the catalog, makes no call at all and writes no status code.
Dropped(h) ==
  /\ Notified(h)
  /\ \/ req[h].Phase \notin {"STARTED", "COMPLETED"}
     \/ /\ req[h].Phase = "COMPLETED"
        /\ req[h].Status \notin {"SUCCESS", "FAILURE", "UNSTABLE", "ABORTED"}
     \/ ~InCatalog(req[h].Name)

C10_DroppedNotification ==
  Dropped(1) => (log[1] = <<>> /\ resp[1] = 0)

C10_Witness ==
  /\ Dropped(1)
  /\ req[1].Name = "j1"
  /\ req[1].Phase = "COMPLETED"
  /\ req[1].Status = "WEIRD"

\* ------------------------------------------------------ downstream builds
\* the notification of h is a COMPLETED/SUCCESS notification
Succeeded(h) == req[h].Phase = "COMPLETED" /\ req[h].Status = "SUCCESS"

\* the downstream contexts configured on the notifying job's definition
DownstreamOf(h) == getBuildByJob(req[h].Name).build.DownstreamBuilds

\* the definition of the i-th downstream context, for the notification's repo
DownstreamDef(h, i) == getBuildByContextAndRepo(DownstreamOf(h)[i], req[h].GitBaseRepo)

\* the schedule calls of the handling for job
BuildsFor(h, job) == {k \in Idx(h) : IsBuild(log[h][k]) /\ log[h][k].job = job}

\* the pending write for context ctx was made and succeeded
PendingWritten(h, ctx) ==
  Some(h, LAMBDA e : IsPending(e) /\ e.ctx = ctx /\ e.ok
                       /\ e.by = "scheduleJenkinsDownstreamBuild")

\* every schedule call of the handling carries the notification's own sha,
\* head repo and pull-request number
OwnShaAndHead(h) ==
  \A k \in Idx(h) :
    IsBuild(log[h][k]) =>
      /\ log[h][k].sha = req[h].GitSha
      /\ log[h][k].head = req[h].GitHeadRepo
      /\ log[h][k].n = Atoi(req[h].PR)
      /\ log[h][k].by = "scheduleJenkinsDownstreamBuild"

\* C11 as stated: only a COMPLETED/SUCCESS notification schedules downstream
\* builds; a downstream definition whose exclusion set holds the base branch
\* is never scheduled, every other one exactly once, with the notification's
\* own sha and head repo.
C11_DownstreamExactlyOnce ==
  (Notified(1) /\ InCatalog(req[1].Name)) =>
    /\ ~Succeeded(1) => None(1, IsBuild)
    /\ OwnShaAndHead(1)
    /\ Succeeded(1) =>
         \A i \in 1..Len(DownstreamOf(1)) :
           ~DownstreamDef(1, i).err =>
             Cardinality(BuildsFor(1, DownstreamDef(1, i).build.Job)) =
               (IF req[1].BaseBranch \in DownstreamDef(1, i).build.ExcludeTargets
                THEN 0 ELSE 1)

\* C11, amended: only a COMPLETED/SUCCESS notification schedules downstream
\* builds, each with the notification's own sha, head repo and pull-request
\* number.  A downstream context gets no schedule call when its definition
\* or that of an earlier context of the list is not found, when the base
\* branch is in its exclusion set, or when its pending status write fails;
\* otherwise it gets exactly one.
C11_DownstreamOnceUnlessFailed ==
  (Notified(1) /\ InCatalog(req[1].Name)) =>
    /\ ~Succeeded(1) => None(1, IsBuild)
    /\ OwnShaAndHead(1)
    /\ Succeeded(1) =>
         \A i \in 1..Len(DownstreamOf(1)) :
           IF \E k \in 1..i : DownstreamDef(1, k).err
           THEN \A k \in i..Len(DownstreamOf(1)) : ~DownstreamDef(1, k).err =>
                  BuildsFor(1, DownstreamDef(1, k).build.Job) = {}
           ELSE LET d == DownstreamDef(1, i).build
                IN Cardinality(BuildsFor(1, d.Job)) =
                     (IF req[1].BaseBranch \in d.ExcludeTargets THEN 0
                      ELSE IF PendingWritten(1, d.Context) THEN 1 ELSE 0)

C11_Witness ==
  /\ Notified(1)
  /\ req[1].Name = "j1"
  /\ Succeeded(1)
  /\ req[1].BaseBranch = "release"
  /\ BuildsFor(1, "j3") = {}
  /\ Cardinality(BuildsFor(1, "j4")) = 1
  /\ \A k \in BuildsFor(1, "j4") : log[1][k].ok

\* ----------------------------------------------------------- review events
IsReview(h) == req[h].kind = "pull_request_review"

\* the bodies of ReviewBodies that read "rerun ci" once surrounding
\* whitespace is dropped and case is ignored
RerunBodies ==
  { <<"r", "e", "r", "u", "n", " ", "c", "i">>,
    <<" ", " ", "R", "e", "r", "u", "n", " ", "C", "I", " ", " ">>,
    <<"\t", "R", "E", "R", "U", "N", " ", "C", "I", "\n">> }

\* a submitted review that asks for a re-run
AsksRerun(h) ==
  /\ IsReview(h)
  /\ req[h].payload = "ok"
  /\ req[h].action = "submitted"
  /\ req[h].body \in RerunBodies

\* the authorization check let the reviewer pass: the allowlist is empty or
\* a membership query for a team of the reviewer was answered
ReviewerPassed(h) ==
  \/ config.Teams = <<>>
  \/ Some(h, LAMBDA e : e.op = "member" /\ e.ok /\ Member(e.job, req[h].reviewer))

NoSideEffect(h) ==
  /\ loc[h].entered = 0
  /\ None(h, LAMBDA e : e.op \in {"status", "comment", "query", "cancel", "build",
                                  "getpr", "commits", "statuses"})

\* the parts of C12 about reviews that ask for a re-run
C12_Rerun(h) ==
  /\ (AsksRerun(h) /\ ReviewerPassed(h)) => loc[h].entered = 1
  /\ (AsksRerun(h) /\ ~ReviewerPassed(h)) => (NoSideEffect(h) /\ Status(h) = 403)

\* C12 as stated: the cancel-then-schedule sequence runs exactly once iff
\* the review is submitted, its trimmed body is "rerun ci" ignoring case and
\* the reviewer passes the authorization check; a matching review of an
\* unauthorized reviewer gets 403 and has no side effect; any other review
\* event gets 200 and has no side effect.
C12_ReviewRerun ==
  (IsReview(1) /\ pc[1] = "done") =>
    /\ C12_Rerun(1)
    /\ ~AsksRerun(1) => (NoSideEffect(1) /\ Status(1) = 200)

\* C12, amended: as stated, but a review event whose payload cannot be read
\* gets 500 and one whose payload cannot be decoded gets 400, both without
\* side effect.
C12_ReviewRerunDecoded ==
  (IsReview(1) /\ pc[1] = "done") =>
    /\ C12_Rerun(1)
    /\ ~AsksRerun(1) =>
         /\ NoSideEffect(1)
         /\ Status(1) = (CASE req[1].payload = "unreadable" -> 500
                           [] req[1].payload = "badjson" -> 400
                           [] OTHER -> 200)

C12_Witness ==
  /\ IsReview(1)
  /\ pc[1] = "done"
  /\ req[1].body = <<" ", " ", "R", "e", "r", "u", "n", " ", "C", "I", " ", " ">>
  /\ req[1].reviewer = "alice"
  /\ config.Teams # <<>>
  /\ loc[1].entered = 1
  /\ Some(1, LAMBDA e : e.op = "cancel" /\ e.ok)
  /\ Some(1, LAMBDA e : IsBuild(e) /\ e.ok)

\* ------------------------------------------------- idempotent cancellation
\* the i-th call of the handling is an instance query answered "none"
QueryNone(h, i) ==
  /\ log[h][i].op = "query"
  /\ log[h][i].by = "cancelJenkinsBuild"
  /\ log[h][i].ok
  /\ log[h][i].sha = 0

\* C13: when the instance query of a (job, PR) slot answers none, no cancel
\* call is made for the slot and the cancellation counts as a success: the
\* handling goes on with the next definition or with scheduling (an
\* unauthorized handling ends with 200 after the last definition).
C13_NoInstanceNoCancel ==
  Acted(1) =>
    \A i \in Idx(1) :
      QueryNone(1, i) =>
        /\ None(1, LAMBDA e : e.op = "cancel" /\ e.job = log[1][i].job)
        /\ IF i = Len(log[1])
           THEN \/ pc[1] \in {"cancel", "sched"}
                \/ pc[1] = "done" /\ ~loc[1].authorized /\ Status(1) = 200
           ELSE \/ log[1][i + 1].by = "cancelJenkinsBuild" /\ log[1][i + 1].op = "getpr"
                \/ log[1][i + 1].by = "scheduleJenkinsBuild"

C13_Witness ==
  /\ Acted(1)
  /\ pc[1] = "done"
  /\ \E i \in Idx(1) : QueryNone(1, i) /\ log[1][i].job = "j1"
  /\ Some(1, LAMBDA e : IsBuild(e) /\ e.job = "j1" /\ e.ok)

\* ------------------------------------------------------- the load retries
IsLoad(e) == e.op = "load"
NotFound(e) == e.op = "load" /\ e.state = "Not Found"

RECURSIVE Sum(_)
Sum(s) == IF s = <<>> THEN 0 ELSE s[1] + Sum(Tail(s))

\* C14: in one handling the content of the pull request is loaded at most 5
\* times.
C14_AtMostFiveLoads ==
  Acted(1) => Count(1, IsLoad) <= 5

\* C15: the waits before the retries are 1, 2, 4, 8, 16 seconds, in that
\* order, one wait after each Not Found answer that is retried, and the
\* waits of one handling add up to 31 seconds at most.
C15_Backoff ==
  Acted(1) =>
    /\ Len(loc[1].waits) <= 5
    /\ loc[1].waits = SubSeq(<<1, 2, 4, 8, 16>>, 1, Len(loc[1].waits))
    /\ Sum(loc[1].waits) <= 31
    /\ Len(loc[1].waits) = (IF Count(1, NotFound) > 5 THEN 5 ELSE Count(1, NotFound))

C15_Witness ==
  /\ Acted(1)
  /\ loc[1].waits = <<1, 2, 4, 8, 16>>
  /\ pc[1] = "done"
  /\ Some(1, LAMBDA e : IsBuild(e) /\ e.ok)

\* no load of the handling has succeeded so far
NoLoadSucceeded(h) ==
  /\ Acted(h)
  /\ log[h] # <<>>
  /\ None(h, LAMBDA e : IsLoad(e) /\ e.ok)

\* C16: a content load that does not succeed ends the handling with 500 and
\* without any other call: at once and without a wait when the error is not
\* Not Found (after exactly one attempt when it is the first answer), and
\* once the retries are used up when every answer is Not Found; the number of
\* loads is bounded, so the loop ends.
C16_LoadFailureAborts ==
  NoLoadSucceeded(1) =>
    /\ \A i \in Idx(1) : IsLoad(log[1][i])
    /\ pc[1] \in {"load", "done"}
    /\ pc[1] = "done" => resp[1] = 500
    /\ Len(log[1]) <= totalAttempts + 1
    /\ ~NotFound(Last(log[1])) =>
         /\ pc[1] = "done"
         /\ Len(loc[1].waits) = Len(log[1]) - 1
    /\ ~NotFound(log[1][1]) => (Len(log[1]) = 1 /\ loc[1].waits = <<>>)
    /\ (\A i \in Idx(1) : NotFound(log[1][i])) =>
         (pc[1] = "done" <=> Len(log[1]) = totalAttempts + 1)

C16_Witness ==
  /\ NoLoadSucceeded(1)
  /\ \A i \in Idx(1) : NotFound(log[1][i])
  /\ pc[1] = "done"
  /\ resp[1] = 500
  /\ Len(loc[1].waits) = 5

\* ------------------------------------------------------------ isValidMember
Decided == probe.fn = "isValidMember" /\ probe.done

\* the positions of the allowlist whose team the author is a member of
MemberAt(teams, author) == {i \in 1..Len(teams) : Member(teams[i], author)}

\* C17 as stated: every author is authorized when the allowlist is empty;
\* otherwise an author is authorized iff it is a member of a team of the
\* allowlist, whatever the order of the teams and the outcome of the other
\* membership queries.
C17_MemberOfAnyTeam ==
  Decided =>
    (probe.out.valid <=>
       (probe.teams = <<>> \/ MemberAt(probe.teams, probe.author) # {}))

\* C17, amended: every author is authorized when the allowlist is empty;
\* otherwise an author is authorized iff it is a member of a team of the
\* allowlist and no membership query fails in transport for the teams listed
\* up to and including the first such team; a query that fails ends the
\* check with the answer false and the error.
C17_MemberUnlessQueryFails ==
  Decided =>
    LET hits == MemberAt(probe.teams, probe.author)
        reach == IF hits = {} THEN Len(probe.teams)
                 ELSE CHOOSE i \in hits : \A k \in hits : i <= k
        fails == probe.failAt \in 1..reach
    IN /\ probe.out.valid <=> (probe.teams = <<>> \/ (hits # {} /\ ~fails))
       /\ probe.out.err <=> fails
       /\ Len(probe.out.calls) = (IF fails THEN probe.failAt ELSE reach)

C17_Witness ==
  /\ Decided
  /\ probe.teams = <<"t1", "t3", "t2">>
  /\ probe.author = "alice"
  /\ probe.failAt = 0
  /\ probe.out.valid
  /\ Len(probe.out.calls) = 3

\* ------------------------------------------------- pending before schedule
Scheduled ==
  /\ probe.fn \in {"scheduleJenkinsBuild", "scheduleJenkinsDownstreamBuild"}
  /\ probe.done

\* C18: every schedule call for a sha comes right after a successful pending
\* status write for the same sha under the definition's context; a pending
\* write that fails is the last call of the function, which returns an
\* error: no schedule call follows for that sha or for a later one.
C18_PendingBeforeSchedule ==
  Scheduled =>
    LET calls == probe.out.calls
    IN \A k \in 1..Len(calls) :
         /\ IsBuild(calls[k]) =>
              /\ k > 1
              /\ IsPending(calls[k - 1])
              /\ calls[k - 1].ok
              /\ calls[k - 1].sha = calls[k].sha
              /\ calls[k - 1].ctx = probe.build.Context
              /\ calls[k].job = probe.build.Job
         /\ (IsPending(calls[k]) /\ Failed(calls[k])) =>
              /\ k = Len(calls)
              /\ probe.out.err
              /\ calls[k].sha \notin Range(probe.out.started)

C18_Witness ==
  /\ Scheduled
  /\ probe.fn = "scheduleJenkinsBuild"
  /\ config.BuildCommits = "all"
  /\ probe.out.started = <<Sha(1, 1)>>
  /\ Failed(Last(probe.out.calls))
  /\ IsPending(Last(probe.out.calls))
  /\ Last(probe.out.calls).sha = Sha(1, 2)

\* ------------------------------------------------------ scheduling failure
\* the i-th call of the handling was made by scheduleJenkinsBuild and failed
ScheduleFailedAt(h, i) == log[h][i].by = "scheduleJenkinsBuild" /\ Failed(log[h][i])

\* C19: when scheduling fails for a definition in a handling of a
\* pull-request event, the failed call is the last call of the handling: no
\* pending status write and no schedule call is made for a later definition,
\* and the response is 500.
C19_ScheduleFailureStops ==
  Acted(1) =>
    \A i \in Idx(1) :
      ScheduleFailedAt(1, i) =>
        /\ i = Len(log[1])
        /\ pc[1] = "done"
        /\ resp[1] = 500

C19_Witness ==
  /\ Acted(1)
  /\ pc[1] = "done"
  /\ resp[1] = 500
  /\ log[1] # <<>>
  /\ ScheduleFailedAt(1, Len(log[1]))
  /\ IsBuild(Last(log[1]))
  /\ Last(log[1]).job = "j1"
  /\ None(1, LAMBDA e : IsStatus(e) /\ e.ctx = "c2")
  /\ None(1, LAMBDA e : IsBuild(e) /\ e.job = "j2")
  /\ Some(1, LAMBDA e : e.op = "cancel" /\ e.job = "j2" /\ e.ok)

\* C20: when scheduling fails for a downstream definition, the loop of the
\* notification's handling stops: no pending status write and no schedule
\* call is made for a later downstream context.
C20_DownstreamFailureStops ==
  (Notified(1) /\ InCatalog(req[1].Name)) =>
    \A i \in Idx(1) :
      (log[1][i].by = "scheduleJenkinsDownstreamBuild" /\ Failed(log[1][i])) =>
        \A k \in Idx(1) : k > i => ~(IsPending(log[1][k]) \/ IsBuild(log[1][k]))

\* ------------------------------------------------------- error propagation
\* C21: when an external call fails in the handling of a pull-request event,
\* a Jenkins notification or a review event, the request is answered with
\* 500.
C21_FailureYields500 ==
  (pc[1] = "done"
     /\ req[1].kind \in {"pull_request", "jenkins", "pull_request_review"}
     /\ Some(1, Failed)) =>
    resp[1] = 500

\* ------------------------------------------------- failed instance queries
\* the i-th call of the handling is an instance query that failed
QueryFailedAt(h, i) == log[h][i].op = "query" /\ Failed(log[h][i])

\* C22: an instance query that fails (transport error, status other than
\* 200, unreadable or unparseable body) is not taken for "no instance":
\* cancelJenkinsBuild returns the error, so the query is the last call of the
\* handling and no cancel call is made for the job; an authorized handling
\* ends with 500 and schedules no build.
C22_QueryFailureIsUnknown ==
  Acted(1) =>
    \A i \in Idx(1) :
      QueryFailedAt(1, i) =>
        /\ i = Len(log[1])
        /\ pc[1] = "done"
        /\ None(1, LAMBDA e : e.op = "cancel" /\ e.job = log[1][i].job)
        /\ loc[1].authorized =>
             /\ resp[1] = 500
             /\ None(1, IsBuild)
             /\ None(1, IsPending)

C22_Witness ==
  /\ Acted(1)
  /\ loc[1].authorized
  /\ log[1] # <<>>
  /\ QueryFailedAt(1, Len(log[1]))
  /\ Last(log[1]).job = "j2"
  /\ \E x \in active : x.job = "j2" /\ x.n = req[1].n
  /\ resp[1] = 500

\* ---------------------------------------------------- the stop-instance call
IsCancel(e) == e.op = "cancel"

\* C23 as stated: the stop request succeeds iff Jenkins answers 200 or 201,
\* and a 201 answer does not end the handling.
C23_CancelOK200Or201 ==
  Acted(1) =>
    \A i \in Idx(1) :
      IsCancel(log[1][i]) =>
        /\ log[1][i].ok <=> log[1][i].code \in {200, 201}
        /\ log[1][i].code = 201 => ~(i = Len(log[1]) /\ pc[1] = "done" /\ resp[1] = 500)

\* C23, amended: the stop request succeeds iff Jenkins answers 200; any other
\* answer, 201 included, is an error: the stop request is the last call of
\* the handling, and an authorized handling ends with 500.
C23_CancelOKOnly200 ==
  Acted(1) =>
    \A i \in Idx(1) :
      IsCancel(log[1][i]) =>
        /\ log[1][i].ok <=> log[1][i].code = 200
        /\ log[1][i].code # 200 =>
             /\ i = Len(log[1])
             /\ pc[1] = "done"
             /\ loc[1].authorized => resp[1] = 500

C23_Witness ==
  /\ Acted(1)
  /\ loc[1].authorized
  /\ log[1] # <<>>
  /\ IsCancel(Last(log[1]))
  /\ Last(log[1]).code = 201
  /\ Failed(Last(log[1]))
  /\ pc[1] = "done"
  /\ resp[1] = 500

\* ------------------------------------------- cancelled and scheduled sets
JobsOf(defs) == {b.Job : b \in defs}
ContextsOf(defs) == {b.Context : b \in defs}

\* the definitions of the repo that are neither custom nor downstream
Upstream(repo) == {b \in Matching(repo) : ~b.Downstream}

\* the jobs the handling has queried for an instance, asked Jenkins to stop,
\* and scheduled
Queried(h) == {log[h][i].job : i \in {k \in Idx(h) : log[h][k].op = "query"}}
Stopped(h) == {log[h][i].job : i \in {k \in Idx(h) : log[h][k].op = "cancel"}}
ScheduledJobs(h) == {log[h][i].job : i \in {k \in Idx(h) : IsBuild(log[h][k])}}
PendingContexts(h) == {log[h][i].ctx : i \in {k \in Idx(h) : IsPending(log[h][k])}}

\* an authorized handling of a pull-request event that completed without
\* error
Completed(h) == Acted(h) /\ loc[h].authorized /\ pc[h] = "done" /\ Clean(h)

\* C24 as stated: in an authorized handling the definitions for which
\* cancellation is attempted and those for which a build is scheduled are
\* the same set, the definitions of the base repo that are neither custom
\* nor downstream; no cancel or schedule call is made for a custom or a
\* downstream definition.
C24_SameSetCancelledAndScheduled ==
  (Acted(1) /\ loc[1].authorized) =>
    /\ Queried(1) \cup Stopped(1) \subseteq JobsOf(Upstream(req[1].repo))
    /\ ScheduledJobs(1) \subseteq JobsOf(Upstream(req[1].repo))
    /\ Completed(1) =>
         /\ Queried(1) = JobsOf(Upstream(req[1].repo))
         /\ ScheduledJobs(1) = JobsOf(Upstream(req[1].repo))

\* C24, amended: in an authorized handling cancellation is attempted for the
\* definitions of the base repo that are not custom, the downstream ones
\* included, and a running instance of any of them is asked to stop; pending
\* writes and schedule calls are made only for those that are neither custom
\* nor downstream.  When the handling completes without error, every
\* non-custom definition was queried, scheduleJenkinsBuild was called once
\* for every definition that is neither custom nor downstream, and under the
\* policies last and all each of these got a schedule call.
C24_CancelNonCustomScheduleUpstream ==
  (Acted(1) /\ loc[1].authorized) =>
    /\ Queried(1) \cup Stopped(1) \subseteq JobsOf(Matching(req[1].repo))
    /\ ScheduledJobs(1) \subseteq JobsOf(Upstream(req[1].repo))
    /\ PendingContexts(1) \subseteq ContextsOf(Upstream(req[1].repo))
    /\ Stopped(1) =
         {log[1][i].job : i \in {k \in Idx(1) : /\ log[1][k].op = "query"
                                                /\ log[1][k].ok
                                                /\ log[1][k].sha # 0}}
    /\ Completed(1) =>
         /\ Queried(1) = JobsOf(Matching(req[1].repo))
         /\ Count(1, LAMBDA e : e.op = "getpr" /\ e.by = "scheduleJenkinsBuild") =
              Cardinality(Upstream(req[1].repo))
         /\ config.BuildCommits # "new" =>
              ScheduledJobs(1) = JobsOf(Upstream(req[1].repo))

C24_Witness ==
  /\ Completed(1)
  /\ Some(1, LAMBDA e : IsCancel(e) /\ e.job = "j3" /\ e.ok)
  /\ Some(1, LAMBDA e : IsCancel(e) /\ e.job = "j2" /\ e.ok)
  /\ ScheduledJobs(1) = {"j1", "j2"}
  /\ \A x \in active : x.job # "j3"

\* ----------------------------------------------------- overlapping handlings
\* the instances of the (job, PR) slot
Slot(job, n) == {x \in active : x.job = job /\ x.n = n}

\* every Jenkins call of a handling names the pull request of its event
OwnCallsOnly ==
  \A h \in Handlers :
    \A i \in Idx(h) :
      log[h][i].op \in {"query", "cancel", "build"} => log[h][i].n = req[h].n

\* a step that takes an instance away or adds one is a step of a handling
\* for the pull request of that instance
OwnInstancesOnly ==
  /\ \A x \in active \ active' :
       \E h \in Handlers : log'[h] # log[h] /\ req[h].n = x.n
  /\ \A x \in active' \ active :
       \E h \in Handlers : log'[h] # log[h] /\ req[h].n = x.n

\* C25: handlings that overlap are not mutually exclusive, and a state in
\* which two handlings for the same pull request have both completed and
\* left two active instances in one (job, PR) slot is reachable (C25_Witness);
\* handlings for different pull requests never query, cancel or replace one
\* another's instances.
C25_NoContentionAcrossPRs ==
  /\ []OwnCallsOnly
  /\ [][OwnInstancesOnly]_vars

C25_Witness ==
  /\ Completed(1)
  /\ Completed(2)
  /\ req[1].n = req[2].n
  /\ Cardinality(Slot("j1", req[1].n)) = 2
  /\ None(1, LAMBDA e : IsCancel(e) /\ e.job = "j1")
  /\ None(2, LAMBDA e : IsCancel(e) /\ e.job = "j1")

\* -------------------------------------------------- cancelled, not rebuilt
\* C26: in an authorized handling of a pull-request event that completes
\* without error, every definition that is not downstream and whose instance
\* was cancelled gets a new build scheduled in the same handling.
C26_CancelledIsRescheduled ==
  Completed(1) =>
    \A i \in Idx(1) :
      (IsCancel(log[1][i]) /\ log[1][i].ok
         /\ log[1][i].job \in JobsOf(Upstream(req[1].repo))) =>
        \E k \in Idx(1) :
          k > i /\ IsBuild(log[1][k]) /\ log[1][k].ok /\ log[1][k].job = log[1][i].job

\* -------------------------------------------------- the operator endpoints
IsOps(h) == req[h].kind \in {"custom", "cron"}

\* the request carries the configured username and password
Authenticated(h) ==
  req[h].auth /\ req[h].user = ConfigUser /\ req[h].pass = ConfigPass

\* C27: a request to customBuildHandler or cronBuildHandler that does not
\* carry both the configured username and the configured password is
\* answered 401 and leads to no call at all: no schedule call, no status
\* write.
C27_BothCredentialsRequired ==
  (IsOps(1) /\ ~Authenticated(1)) => (resp[1] = 401 /\ log[1] = <<>>)

====
